---- MODULE Spec2Model ----
(***************************************************************************)
(* Cart ledger, order assembler and fulfillment state machine of the       *)
(* KNEX storefront backend (Express handlers over Prisma/PostgreSQL).      *)
(*                                                                         *)
(* Every handler is an async function: it runs to its next `await` and     *)
(* then yields, so each awaited Prisma call is one step of the handler and *)
(* steps of different requests interleave.  No handler opens a             *)
(* transaction.  A request lives in a slot of `req` together with the      *)
(* handler's local variables; once answered it stays there, with its HTTP  *)
(* status, until the slot is taken by the next request.                    *)
(*                                                                         *)
(* Two revisions of the cart router are in the repository:                 *)
(*   "routes"  src/src/routes/cart.routes.ts  (findFirst on product,       *)
(*             color and size)                                             *)
(*   "part004" src/unnamed/part_004           (findMany on product, then   *)
(*             Array.find comparing JSON.stringify of the JSON columns)    *)
(* `rev` fixes the revision a behaviour runs.                              *)
(*                                                                         *)
(* `env` is process.env.JWT_SECRET, `catalog` the Product rows (price,     *)
(* title, images) that checkout reads and the product update writes.       *)
(* `wishlist` is the WishlistItem table.                                    *)
(***************************************************************************)
EXTENDS Integers, Sequences, FiniteSets, TLC

VARIABLES rev, env, catalog, wishlist, cart, nextCartId, orders, nextOrderId, stock, req, hist, snap, calls

vars == <<rev, env, catalog, wishlist, cart, nextCartId, orders, nextOrderId, stock, req, hist, snap, calls>>

(***************************************************************************)
(* Bounds of the model.                                                    *)
(***************************************************************************)
MaxCartRows == 2
MaxOrders == 1
MaxQuantity == 3
MaxCalls == 3

(***************************************************************************)
(* Values of request bodies and columns.                                   *)
(***************************************************************************)
Absent == "undefined"
Null == "null"

\* A JSON value: undefined, null, or an object given by its key/value pairs
\* in the order the keys were written.
JUndefined == [kind |-> "undefined", pairs |-> <<>>]
JNull == [kind |-> "null", pairs |-> <<>>]
JObject(ps) == [kind |-> "object", pairs |-> ps]

Revisions == {"routes", "part004"}

\* process.env.JWT_SECRET: not set, or the secret of the deployment.
DeployedSecret == "deployed-secret"
JwtSecretEnvs == {Absent, DeployedSecret}
UserIds == {1, 2}
ProductIds == {1, 2}
Slots == {1, 2}

VariantA == JObject(<< <<"id", "1">>, <<"price", "30">> >>)
CustomAB == JObject(<< <<"Finish", "matte">>, <<"Material", "oak">> >>)
CustomBA == JObject(<< <<"Material", "oak">>, <<"Finish", "matte">> >>)

Colors == {Absent, "red"}
Sizes == {Absent}
Variants == {JUndefined, VariantA}
Customs == {JUndefined, CustomAB, CustomBA}
Quantities == {<<>>, <<2>>}

\* Request bodies of POST /api/cart; an optional number is a sequence of
\* length at most one.  The bodies tried carry at most one option.
OptionCount(b) ==
    (IF b.selectedColor = Absent THEN 0 ELSE 1)
    + (IF b.selectedSize = Absent THEN 0 ELSE 1)
    + (IF b.selectedVariant = JUndefined THEN 0 ELSE 1)
    + (IF b.customSelections = JUndefined THEN 0 ELSE 1)

AddBodies ==
    {b \in [productId : {<<p>> : p \in ProductIds}, quantity : Quantities,
            selectedColor : Colors, selectedSize : Sizes,
            selectedVariant : Variants, customSelections : Customs] :
       /\ OptionCount(b) <= 1
       /\ b.productId = <<2>> => OptionCount(b) = 0}

(***************************************************************************)
(* JavaScript helpers.                                                     *)
(***************************************************************************)
\* `s || null` on an optional string.
StrOrNull(s) == IF s \in {Absent, Null, ""} THEN Null ELSE s

\* `j || null` on an optional JSON value (an object is always truthy).
JsonOrNull(j) == IF j.kind = "object" THEN j ELSE JNull

\* const { quantity = 1 } = req.body
QuantityOf(body) == IF body.quantity = <<>> THEN 1 ELSE body.quantity[1]

RECURSIVE Flatten(_)
Flatten(ps) ==
    IF ps = <<>> THEN <<>>
    ELSE <<ps[1][1], ":", ps[1][2]>> \o Flatten(Tail(ps))

\* JSON.stringify: the keys are written in the object's own key order.
JSONstringify(j) ==
    IF j.kind = "object" THEN <<"{">> \o Flatten(j.pairs) \o <<"}">>
    ELSE <<j.kind>>

(***************************************************************************)
(* Line identity (spec 4.1): the key a cart line is known by.              *)
(***************************************************************************)
PairSet(j) == {j.pairs[i] : i \in 1..Len(j.pairs)}

IdentityKey(productId, color, size, variant, custom) ==
    <<productId, StrOrNull(color), StrOrNull(size),
      JsonOrNull(variant).kind, PairSet(JsonOrNull(variant)),
      JsonOrNull(custom).kind, PairSet(JsonOrNull(custom))>>

RowKey(row) ==
    IdentityKey(row.productId, row.selectedColor, row.selectedSize,
                row.selectedVariant, row.customSelections)

BodyKey(body) ==
    IdentityKey(body.productId[1], body.selectedColor, body.selectedSize,
                body.selectedVariant, body.customSelections)

CartOf(u) == {row \in cart : row.userId = u}

(***************************************************************************)
(* POST /api/cart  (addLine)                                               *)
(***************************************************************************)
\* Mutant: the where clause takes the color as sent, without `|| null`.
WhereClauseMatches_RawColor(row, userId, body) ==
    /\ row.userId = userId
    /\ row.productId = body.productId[1]
    /\ row.selectedColor = body.selectedColor
    /\ row.selectedSize = StrOrNull(body.selectedSize)

\* cart.routes.ts: prisma.cartItem.findFirst({ where: whereClause })
WhereClauseMatches(row, userId, body) ==
    /\ row.userId = userId
    /\ row.productId = body.productId[1]
    /\ row.selectedColor = StrOrNull(body.selectedColor)
    /\ row.selectedSize = StrOrNull(body.selectedSize)

\* part_004: findMany({ where: { userId, productId } }) then
\* existingItems.find(...) on color, size and the stringified JSON columns
ExactMatch(row, userId, body) ==
    /\ row.userId = userId
    /\ row.productId = body.productId[1]
    /\ row.selectedColor = StrOrNull(body.selectedColor)
    /\ row.selectedSize = StrOrNull(body.selectedSize)
    /\ JSONstringify(row.selectedVariant)
         = JSONstringify(JsonOrNull(body.selectedVariant))
    /\ JSONstringify(row.customSelections)
         = JSONstringify(JsonOrNull(body.customSelections))

ExistingItems(userId, body) ==
    IF rev = "routes"
    THEN {row \in cart : WhereClauseMatches(row, userId, body)}
    ELSE {row \in cart : ExactMatch(row, userId, body)}

\* The result of the find: a sequence holding the row found, or empty.
\* Neither query is ordered, so any matching row may be the one returned.
FoundItems(userId, body) ==
    IF ExistingItems(userId, body) = {} THEN {<<>>}
    ELSE {<<row>> : row \in ExistingItems(userId, body)}

NewCartRow(id, userId, body, quantity) ==
    [id |-> id, userId |-> userId, productId |-> body.productId[1],
     quantity |-> quantity,
     selectedColor |-> StrOrNull(body.selectedColor),
     selectedSize |-> StrOrNull(body.selectedSize),
     selectedVariant |-> JsonOrNull(body.selectedVariant),
     customSelections |-> JsonOrNull(body.customSelections)]

\* prisma.cartItem.update({ where: { id }, data: { quantity } })
SetRowQuantity(rows, id, quantity) ==
    {IF row.id = id THEN [row EXCEPT !.quantity = quantity] ELSE row
       : row \in rows}

(***************************************************************************)
(* Requests.                                                               *)
(***************************************************************************)
Idle == [op |-> "idle", pc |-> "idle"]
Busy(s) == req[s].pc \notin {"idle", "done"}
Quiescent == \A s \in Slots : ~Busy(s)

\* A handler may start on slot s: slots are taken lowest first.
CanStart(s) ==
    /\ calls < MaxCalls
    /\ ~Busy(s)
    /\ \A t \in Slots : t < s => Busy(t)

\* res.status(code).json(...): the request is answered.
Respond(s, code) == [req EXCEPT ![s] = [@ EXCEPT !.pc = "done", !.status = code]]

\* History of the addLine calls a user has completed: "none", or the
\* identity key all of them carried with the sum of their quantities, or
\* "mixed" once another key or another cart operation was seen.
HistNone == [kind |-> "none"]
HistMixed == [kind |-> "mixed"]
HistAdd(h, body) ==
    IF h.kind = "none"
    THEN [kind |-> "adds", key |-> BodyKey(body), sum |-> QuantityOf(body)]
    ELSE IF h.kind = "adds" /\ h.key = BodyKey(body)
    THEN [h EXCEPT !.sum = @ + QuantityOf(body)]
    ELSE HistMixed

\* The handler up to its first await: the find is issued and answered.
AddLineFind(s, userId, body) ==
    /\ CanStart(s)
    /\ IF body.productId = <<>>
       THEN \* if (!productId): 400 "Product ID is required"
            req' = [req EXCEPT ![s] =
                      [op |-> "addLine", pc |-> "done", status |-> 400,
                       userId |-> userId, body |-> body,
                       existingItem |-> <<>>]]
       ELSE /\ \A row \in ExistingItems(userId, body) :
                  row.quantity + QuantityOf(body) <= MaxQuantity
            /\ \E found \in FoundItems(userId, body) :
                  req' = [req EXCEPT ![s] =
                            [op |-> "addLine", pc |-> "write", status |-> 0,
                             userId |-> userId, body |-> body,
                             existingItem |-> found]]
    /\ UNCHANGED <<rev, env, catalog, wishlist, cart, nextCartId, orders, nextOrderId, stock, hist, snap>>

\* if (existingItem) update quantity else create
AddLineWrite(s) ==
    /\ req[s].op = "addLine" /\ req[s].pc = "write"
    /\ LET r == req[s]
           q == QuantityOf(r.body)
       IN  IF r.existingItem # <<>>
           THEN IF \E row \in cart : row.id = r.existingItem[1].id
                THEN /\ cart' = SetRowQuantity(cart, r.existingItem[1].id,
                                               r.existingItem[1].quantity + q)
                     /\ req' = Respond(s, 200)
                     /\ hist' = [hist EXCEPT ![r.userId] = HistAdd(@, r.body)]
                     /\ UNCHANGED nextCartId
                ELSE \* update of a row that is gone: Prisma throws, 500
                     /\ req' = Respond(s, 500)
                     /\ UNCHANGED <<cart, nextCartId, hist>>
           ELSE /\ nextCartId <= MaxCartRows
                /\ cart' = cart \cup {NewCartRow(nextCartId, r.userId, r.body, q)}
                /\ nextCartId' = nextCartId + 1
                /\ req' = Respond(s, 200)
                /\ hist' = [hist EXCEPT ![r.userId] = HistAdd(@, r.body)]
    /\ UNCHANGED <<rev, env, catalog, wishlist, orders, nextOrderId, stock, snap>>

(***************************************************************************)
(* PUT /api/cart/:itemId  (setQuantity)                                    *)
(***************************************************************************)
ItemIds == 1..MaxCartRows
SetQuantities == 0..MaxQuantity

\* The find without the owner in its where clause.
OwnedItem_AnyUser(itemId, userId) ==
    {row \in cart : row.id = itemId}

\* prisma.cartItem.findFirst({ where: { id: Number(itemId), userId } })
OwnedItem(itemId, userId) ==
    {row \in cart : row.id = itemId /\ row.userId = userId}

\* The handler without its quantity check.
SetQuantityFind_NoQuantityCheck(s, userId, itemId, quantity) ==
    /\ CanStart(s)
    /\ LET r == [op |-> "setQuantity", pc |-> "write", status |-> 0,
                 userId |-> userId, itemId |-> itemId, quantity |-> quantity]
       IN  req' = [req EXCEPT ![s] =
                IF OwnedItem(itemId, userId) = {}
                THEN [r EXCEPT !.pc = "done", !.status = 404]
                ELSE r]
    /\ hist' = [hist EXCEPT ![userId] = HistMixed]
    /\ UNCHANGED <<rev, env, catalog, wishlist, cart, nextCartId, orders, nextOrderId, stock, snap>>

SetQuantityFind(s, userId, itemId, quantity) ==
    /\ CanStart(s)
    /\ LET r == [op |-> "setQuantity", pc |-> "write", status |-> 0,
                 userId |-> userId, itemId |-> itemId, quantity |-> quantity]
       IN  req' = [req EXCEPT ![s] =
                IF quantity < 1 THEN [r EXCEPT !.pc = "done", !.status = 400]
                ELSE IF OwnedItem(itemId, userId) = {}
                THEN [r EXCEPT !.pc = "done", !.status = 404]
                ELSE r]
    /\ hist' = [hist EXCEPT ![userId] = HistMixed]
    /\ UNCHANGED <<rev, env, catalog, wishlist, cart, nextCartId, orders, nextOrderId, stock, snap>>

\* prisma.cartItem.update({ where: { id: Number(itemId) }, data: { quantity } })
SetQuantityWrite(s) ==
    /\ req[s].op = "setQuantity" /\ req[s].pc = "write"
    /\ IF \E row \in cart : row.id = req[s].itemId
       THEN /\ cart' = SetRowQuantity(cart, req[s].itemId, req[s].quantity)
            /\ req' = Respond(s, 200)
       ELSE /\ req' = Respond(s, 500)
            /\ UNCHANGED cart
    /\ UNCHANGED <<rev, env, catalog, wishlist, nextCartId, orders, nextOrderId, stock, hist, snap>>

(***************************************************************************)
(* DELETE /api/cart/:itemId  (removeLine)                                  *)
(***************************************************************************)
RemoveLineFind(s, userId, itemId) ==
    /\ CanStart(s)
    /\ LET r == [op |-> "removeLine", pc |-> "delete", status |-> 0,
                 userId |-> userId, itemId |-> itemId]
       IN  req' = [req EXCEPT ![s] =
                IF OwnedItem(itemId, userId) = {}
                THEN [r EXCEPT !.pc = "done", !.status = 404]
                ELSE r]
    /\ hist' = [hist EXCEPT ![userId] = HistMixed]
    /\ UNCHANGED <<rev, env, catalog, wishlist, cart, nextCartId, orders, nextOrderId, stock, snap>>

\* prisma.cartItem.delete({ where: { id: Number(itemId) } })
RemoveLineDelete(s) ==
    /\ req[s].op = "removeLine" /\ req[s].pc = "delete"
    /\ IF \E row \in cart : row.id = req[s].itemId
       THEN /\ cart' = {row \in cart : row.id # req[s].itemId}
            /\ req' = Respond(s, 200)
       ELSE /\ req' = Respond(s, 500)
            /\ UNCHANGED cart
    /\ UNCHANGED <<rev, env, catalog, wishlist, nextCartId, orders, nextOrderId, stock, hist, snap>>

(***************************************************************************)
(* DELETE /api/cart  (clear)                                               *)
(***************************************************************************)
\* Mutant: deleteMany without its where clause.
ClearCart_AllUsers(s, userId) ==
    /\ CanStart(s)
    /\ cart' = {}
    /\ req' = [req EXCEPT ![s] =
                 [op |-> "clear", pc |-> "done", status |-> 200,
                  userId |-> userId]]
    /\ hist' = [hist EXCEPT ![userId] = HistMixed]
    /\ UNCHANGED <<rev, env, catalog, wishlist, nextCartId, orders, nextOrderId, stock, snap>>

\* prisma.cartItem.deleteMany({ where: { userId } })
ClearCart(s, userId) ==
    /\ CanStart(s)
    /\ cart' = {row \in cart : row.userId # userId}
    /\ req' = [req EXCEPT ![s] =
                 [op |-> "clear", pc |-> "done", status |-> 200,
                  userId |-> userId]]
    /\ hist' = [hist EXCEPT ![userId] = HistMixed]
    /\ UNCHANGED <<rev, env, catalog, wishlist, nextCartId, orders, nextOrderId, stock, snap>>

(***************************************************************************)
(* POST /api/cart/sync  (mergeFromGuest)                                   *)
(***************************************************************************)
\* Guest cart items: bodies of product 1 with their quantity given.
SyncBodies ==
    {[b EXCEPT !.quantity = <<1>>] : b \in
        {a \in AddBodies : /\ a.productId = <<1>> /\ a.quantity = <<>>
                           /\ a.selectedColor = Absent}}
SyncItems ==
    {<<b>> : b \in SyncBodies} \cup {<<a, b>> : a \in SyncBodies, b \in SyncBodies}

\* The handler, and each turn of its loop, up to the find of the next item.
SyncLoop(s, r) ==
    IF r.items = <<>> THEN [r EXCEPT !.pc = "done", !.status = 200]
    ELSE r

SyncStart(s, userId, items) ==
    /\ CanStart(s)
    /\ \A row \in ExistingItems(userId, Head(items)) :
          row.quantity + QuantityOf(Head(items)) <= MaxQuantity
    /\ \E found \in FoundItems(userId, Head(items)) :
          req' = [req EXCEPT ![s] =
                    [op |-> "sync", pc |-> "write", status |-> 0,
                     userId |-> userId, items |-> items,
                     existingItem |-> found]]
    /\ hist' = [hist EXCEPT ![userId] = HistMixed]
    /\ UNCHANGED <<rev, env, catalog, wishlist, cart, nextCartId, orders, nextOrderId, stock, snap>>

\* findFirst / findMany of the item at the head of the remaining items
SyncFind(s) ==
    /\ req[s].op = "sync" /\ req[s].pc = "find"
    /\ \A row \in ExistingItems(req[s].userId, Head(req[s].items)) :
          row.quantity + QuantityOf(Head(req[s].items)) <= MaxQuantity
    /\ \E found \in FoundItems(req[s].userId, Head(req[s].items)) :
          req' = [req EXCEPT ![s] =
                    [@ EXCEPT !.pc = "write", !.existingItem = found]]
    /\ UNCHANGED <<rev, env, catalog, wishlist, cart, nextCartId, orders, nextOrderId, stock, hist, snap>>

\* update or create for the item at the head, then on to the next item
SyncWrite(s) ==
    /\ req[s].op = "sync" /\ req[s].pc = "write"
    /\ LET r == req[s]
           item == Head(r.items)
           rest == [r EXCEPT !.items = Tail(r.items), !.existingItem = <<>>,
                             !.pc = "find"]
       IN  IF r.existingItem # <<>>
           THEN IF \E row \in cart : row.id = r.existingItem[1].id
                THEN /\ cart' = SetRowQuantity(cart, r.existingItem[1].id,
                                   r.existingItem[1].quantity + item.quantity[1])
                     /\ req' = [req EXCEPT ![s] = SyncLoop(s, rest)]
                     /\ UNCHANGED nextCartId
                ELSE /\ req' = Respond(s, 500)
                     /\ UNCHANGED <<cart, nextCartId>>
           ELSE /\ nextCartId <= MaxCartRows
                /\ cart' = cart \cup {NewCartRow(nextCartId, r.userId, item,
                                                 item.quantity[1])}
                /\ nextCartId' = nextCartId + 1
                /\ req' = [req EXCEPT ![s] = SyncLoop(s, rest)]
    /\ UNCHANGED <<rev, env, catalog, wishlist, orders, nextOrderId, stock, hist, snap>>

(***************************************************************************)
(* Catalog.                                                                *)
(***************************************************************************)
ProductPrice == (1 :> 10) @@ (2 :> 25)
ProductTitle == (1 :> "Product A") @@ (2 :> "Product B")
ProductImages == (1 :> <<"a.jpg">>) @@ (2 :> <<"b.jpg">>)
InitStock == [p \in ProductIds |-> 5]

\* The Product rows the order routes read: price, title and images.
InitCatalog ==
    [p \in ProductIds |-> [price |-> ProductPrice[p], title |-> ProductTitle[p],
                           images |-> ProductImages[p]]]

\* The number a JSON numeral stands for.
NumberOf == ("0" :> 0) @@ ("1" :> 1) @@ ("30" :> 30)

\* selectedVariant?.price: the price of a variant, if it has one
VariantPrice(j) ==
    IF j.kind = "object" /\ \E i \in 1..Len(j.pairs) : j.pairs[i][1] = "price"
    THEN <<NumberOf[j.pairs[CHOOSE i \in 1..Len(j.pairs) :
                               j.pairs[i][1] = "price"][2]]>>
    ELSE <<>>

\* const price = selectedVariant?.price || product?.price || 0
UnitPrice(variant, product) ==
    IF VariantPrice(variant) # <<>> /\ VariantPrice(variant)[1] # 0
    THEN VariantPrice(variant)[1]
    ELSE IF product # <<>> /\ product[1].price # 0 THEN product[1].price
    ELSE 0

\* selectedVariant?.image: the image of a variant, if it has one
VariantImage(j) ==
    IF j.kind = "object" /\ \E i \in 1..Len(j.pairs) : j.pairs[i][1] = "image"
    THEN <<j.pairs[CHOOSE i \in 1..Len(j.pairs) : j.pairs[i][1] = "image"][2]>>
    ELSE <<>>

\* const image = selectedVariant?.image || product?.images?.[0] || ''
DisplayImage(variant, product) ==
    IF VariantImage(variant) # <<>> /\ VariantImage(variant)[1] # ""
    THEN VariantImage(variant)[1]
    ELSE IF product # <<>> /\ product[1].images # <<>> /\ product[1].images[1] # ""
    THEN product[1].images[1]
    ELSE ""

\* productMap.get(item.productId)
ProductOf(productId) ==
    IF productId \in ProductIds
    THEN <<[id |-> productId, title |-> catalog[productId].title,
            price |-> catalog[productId].price,
            images |-> catalog[productId].images]>>
    ELSE <<>>

(***************************************************************************)
(* POST /api/orders  (placeOrder)                                          *)
(***************************************************************************)
DeliveryAreas == {"inside", "outside"}
ValidShipping ==
    [customerName : {"Ann"}, customerPhone : {"017"},
     deliveryAddress : {"12 Road"}, deliveryArea : DeliveryAreas]
ShippingBodies ==
    ValidShipping
    \cup {[b EXCEPT !.customerName = Absent] : b \in ValidShipping}
    \cup {[b EXCEPT !.customerPhone = Absent] : b \in ValidShipping}
    \cup {[b EXCEPT !.deliveryAddress = Absent] : b \in ValidShipping}
    \cup {[b EXCEPT !.deliveryArea = Absent] : b \in ValidShipping}

\* The validation without the delivery area.
MissingShipping_NoArea(b) ==
    \/ b.customerName \in {Absent, ""}
    \/ b.customerPhone \in {Absent, ""}
    \/ b.deliveryAddress \in {Absent, ""}

\* !customerName || !customerPhone || !deliveryAddress || !deliveryArea
MissingShipping(b) ==
    \/ b.customerName \in {Absent, ""}
    \/ b.customerPhone \in {Absent, ""}
    \/ b.deliveryAddress \in {Absent, ""}
    \/ b.deliveryArea \in {Absent, ""}

\* The rows of a findMany, as the table holds them: by id.
RECURSIVE RowsById(_)
RowsById(rows) ==
    IF rows = {} THEN <<>>
    ELSE LET first == CHOOSE r \in rows : \A o \in rows : r.id <= o.id
         IN  <<first>> \o RowsById(rows \ {first})

\* cartItems.map(item => ...): the order item made from one cart row
OrderItem(row) ==
    [productId |-> row.productId,
     title |-> IF ProductOf(row.productId) # <<>>
               THEN ProductOf(row.productId)[1].title ELSE "Unknown Product",
     price |-> UnitPrice(row.selectedVariant, ProductOf(row.productId)),
     quantity |-> row.quantity,
     image |-> DisplayImage(row.selectedVariant, ProductOf(row.productId))]

OrderItems(rows) == [i \in 1..Len(rows) |-> OrderItem(rows[i])]

\* subtotal += price * item.quantity
RECURSIVE Subtotal(_)
Subtotal(items) ==
    IF items = <<>> THEN 0
    ELSE items[1].price * items[1].quantity + Subtotal(Tail(items))

\* const deliveryCharge = deliveryArea === 'inside' ? 80 : 150
DeliveryCharge(deliveryArea) == IF deliveryArea = "inside" THEN 80 ELSE 150

\* Mutant: the delivery charge is left out of the total.
Total_NoCharge(subtotal, deliveryCharge) == subtotal

\* const total = subtotal + deliveryCharge
Total(subtotal, deliveryCharge) == subtotal + deliveryCharge

\* Mutant: the handler does not stop on an empty cart.
PlaceOrderStart_NoEmptyCheck(s, userId, body) ==
    /\ CanStart(s)
    /\ LET r == [op |-> "placeOrder", pc |-> "products", status |-> 0,
                 error |-> "", userId |-> userId, body |-> body,
                 cartItems |-> RowsById(CartOf(userId)),
                 orderItems |-> <<>>, order |-> <<>>]
       IN  req' = [req EXCEPT ![s] =
                IF MissingShipping(body)
                THEN [r EXCEPT !.pc = "done", !.status = 400, !.cartItems = <<>>,
                               !.error = "Please fill in all required fields"]
                ELSE r]
    /\ hist' = [hist EXCEPT ![userId] = HistMixed]
    /\ UNCHANGED <<rev, env, catalog, wishlist, cart, nextCartId, orders, nextOrderId, stock, snap>>

\* Validation and prisma.cartItem.findMany({ where: { userId } })
PlaceOrderStart(s, userId, body) ==
    /\ CanStart(s)
    /\ LET r == [op |-> "placeOrder", pc |-> "products", status |-> 0,
                 error |-> "", userId |-> userId, body |-> body,
                 cartItems |-> RowsById(CartOf(userId)),
                 orderItems |-> <<>>, order |-> <<>>]
       IN  req' = [req EXCEPT ![s] =
                IF MissingShipping(body)
                THEN [r EXCEPT !.pc = "done", !.status = 400, !.cartItems = <<>>,
                               !.error = "Please fill in all required fields"]
                ELSE IF CartOf(userId) = {}
                THEN [r EXCEPT !.pc = "done", !.status = 400,
                               !.error = "Cart is empty"]
                ELSE r]
    /\ hist' = [hist EXCEPT ![userId] = HistMixed]
    /\ UNCHANGED <<rev, env, catalog, wishlist, cart, nextCartId, orders, nextOrderId, stock, snap>>

\* prisma.product.findMany(...), then the items and totals are computed
PlaceOrderProducts(s) ==
    /\ req[s].op = "placeOrder" /\ req[s].pc = "products"
    /\ req' = [req EXCEPT ![s] =
                 [@ EXCEPT !.pc = "create",
                           !.orderItems = OrderItems(req[s].cartItems)]]
    /\ UNCHANGED <<rev, env, catalog, wishlist, cart, nextCartId, orders, nextOrderId, stock, hist, snap>>

\* generateOrderNumber(): a string made of the clock and of four random
\* characters.  Numbers are told apart only by being equal or not, so the
\* ones a call can get are those of the orders there are and one that no
\* order has yet.
FreshOrderNumber ==
    CHOOSE n \in 1..(Cardinality(orders) + 1) :
        \A o \in orders : o.orderNumber # n
generateOrderNumber == {o.orderNumber : o \in orders} \cup {FreshOrderNumber}

\* Mutant: the Order table without its unique index.
NumberTaken_NoIndex(orderNumber) == FALSE

\* CREATE UNIQUE INDEX "Order_orderNumber_key" ON "Order"("orderNumber")
NumberTaken(orderNumber) == \E o \in orders : o.orderNumber = orderNumber

NewOrder(id, orderNumber, userId, body, items) ==
    [id |-> id, orderNumber |-> orderNumber, userId |-> userId,
     deliveryArea |-> body.deliveryArea,
     deliveryCharge |-> DeliveryCharge(body.deliveryArea),
     subtotal |-> Subtotal(items),
     total |-> Total(Subtotal(items), DeliveryCharge(body.deliveryArea)),
     status |-> "pending", paymentStatus |-> "pending", notes |-> Null,
     items |-> items]

\* Mutant: the checkout reserves the stock of its first item.
PlaceOrderCreate_ReservesStock(s, orderNumber) ==
    /\ req[s].op = "placeOrder" /\ req[s].pc = "create"
    /\ nextOrderId <= MaxOrders
    /\ orders' = orders \cup
          {NewOrder(nextOrderId, orderNumber, req[s].userId, req[s].body,
                    req[s].orderItems)}
    /\ nextOrderId' = nextOrderId + 1
    /\ req' = [req EXCEPT ![s] = [@ EXCEPT !.pc = "clear", !.order = <<nextOrderId>>]]
    /\ stock' = [stock EXCEPT ![req[s].orderItems[1].productId] =
                                 @ - req[s].orderItems[1].quantity]
    /\ UNCHANGED <<rev, env, catalog, wishlist, cart, nextCartId, hist, snap>>

\* prisma.order.create({ data: { ..., items: { create: orderItems } } })
\* with orderNumber the value generateOrderNumber() returned: the insert is
\* rejected when an order has that number already, and the catch block
\* answers 500.  nextOrderId counts the orders created.
PlaceOrderCreate(s, orderNumber) ==
    /\ req[s].op = "placeOrder" /\ req[s].pc = "create"
    /\ IF NumberTaken(orderNumber)
       THEN /\ req' = Respond(s, 500)
            /\ UNCHANGED <<orders, nextOrderId>>
       ELSE /\ nextOrderId <= MaxOrders
            /\ orders' = orders \cup
                  {NewOrder(nextOrderId, orderNumber, req[s].userId, req[s].body,
                            req[s].orderItems)}
            /\ nextOrderId' = nextOrderId + 1
            /\ req' = [req EXCEPT ![s] =
                         [@ EXCEPT !.pc = "clear", !.order = <<nextOrderId>>]]
    /\ UNCHANGED <<rev, env, catalog, wishlist, cart, nextCartId, stock, hist, snap>>

\* prisma.cartItem.deleteMany({ where: { userId } }), then 201
PlaceOrderClear(s) ==
    /\ req[s].op = "placeOrder" /\ req[s].pc = "clear"
    /\ cart' = {row \in cart : row.userId # req[s].userId}
    /\ req' = Respond(s, 201)
    /\ UNCHANGED <<rev, env, catalog, wishlist, nextCartId, orders, nextOrderId, stock, hist, snap>>

(***************************************************************************)
(* PUT /api/orders/admin/:id/status  (setStatus)                           *)
(***************************************************************************)
Statuses == {"pending", "processing", "delivered", "cancelled"}
OrderIds == 1..MaxOrders
StatusBodies ==
    {b \in [status : Statuses \cup {Absent}, paymentStatus : {Absent, "pending"},
            notes : {Absent, "call first"}] :
       b.paymentStatus = Absent \/ b.notes = Absent}

OrderById(id) == {o \in orders : o.id = id}

\* Mutant: the guard looks at the new status only.
EntersDelivered_NewStatusOnly(body, currentOrder) == body.status = "delivered"

\* status === 'delivered' && currentOrder.status !== 'delivered'
EntersDelivered(body, currentOrder) ==
    body.status = "delivered" /\ currentOrder.status # "delivered"

\* Mutant: the restore guard looks at the stored status only.
LeavesDelivered_StoredStatusOnly(body, currentOrder) ==
    currentOrder.status = "delivered"

\* currentOrder.status === 'delivered' && status && status !== 'delivered'
LeavesDelivered(body, currentOrder) ==
    /\ currentOrder.status = "delivered"
    /\ body.status \notin {Absent, ""}
    /\ body.status # "delivered"

\* Stock history of an order: the stock when its delivery began, and
\* whether only this order's transitions moved stock since.
NoSnap == [taken |-> FALSE]

\* Mutant: the find falls back on some order when none has the id.
SetStatusStart_AnyOrder(s, id, body) ==
    /\ CanStart(s)
    /\ LET r == [op |-> "setStatus", pc |-> "update", status |-> 0,
                 id |-> id, body |-> body, currentOrder |-> <<>>, idx |-> 1,
                 stockBefore |-> stock]
       IN  IF orders = {}
           THEN /\ req' = [req EXCEPT ![s] = [r EXCEPT !.pc = "done", !.status = 404]]
                /\ UNCHANGED snap
           ELSE LET cur == IF OrderById(id) # {}
                           THEN CHOOSE o \in orders : o.id = id
                           ELSE CHOOSE o \in orders : TRUE
                IN  /\ req' = [req EXCEPT ![s] =
                           [r EXCEPT !.currentOrder = <<cur>>,
                                     !.pc = IF EntersDelivered(body, cur)
                                            THEN "decrement"
                                            ELSE IF LeavesDelivered(body, cur)
                                            THEN "increment"
                                            ELSE "update"]]
                    /\ UNCHANGED snap
    /\ UNCHANGED <<rev, env, catalog, wishlist, cart, nextCartId, orders, nextOrderId, stock, hist>>

\* Admin check and prisma.order.findUnique({ where: { id }, include: items })
SetStatusStart(s, id, body) ==
    /\ CanStart(s)
    /\ LET r == [op |-> "setStatus", pc |-> "update", status |-> 0,
                 id |-> id, body |-> body, currentOrder |-> <<>>, idx |-> 1,
                 stockBefore |-> stock]
       IN  IF OrderById(id) = {}
           THEN /\ req' = [req EXCEPT ![s] = [r EXCEPT !.pc = "done", !.status = 404]]
                /\ UNCHANGED snap
           ELSE LET cur == CHOOSE o \in orders : o.id = id
                IN  /\ req' = [req EXCEPT ![s] =
                           [r EXCEPT !.currentOrder = <<cur>>,
                                     !.pc = IF EntersDelivered(body, cur)
                                            THEN "decrement"
                                            ELSE IF LeavesDelivered(body, cur)
                                            THEN "increment"
                                            ELSE "update"]]
                    /\ snap' = IF EntersDelivered(body, cur) /\ id \in OrderIds
                               THEN [snap EXCEPT ![id] =
                                       [taken |-> TRUE, before |-> stock,
                                        from |-> cur.status, clean |-> TRUE]]
                               ELSE snap
    /\ UNCHANGED <<rev, env, catalog, wishlist, cart, nextCartId, orders, nextOrderId, stock, hist>>

\* Another order's transition moved stock: the history is no longer clean.
Disturb(id) ==
    [o \in OrderIds |->
        IF o # id /\ snap[o].taken THEN [snap[o] EXCEPT !.clean = FALSE]
        ELSE snap[o]]

\* Mutant: the handler computes the new stock from the stock it read when
\* the request began and writes that value.
DecrementStock_ReadThenWrite(s, item) ==
    [stock EXCEPT ![item.productId] =
                     req[s].stockBefore[item.productId] - item.quantity]

\* data: { stock: { decrement: item.quantity } }: the database subtracts
\* from the value the row holds when the update runs.
DecrementStock(s, item) ==
    [stock EXCEPT ![item.productId] = @ - item.quantity]

\* Mutant: the stock is taken one unit per item.
SetStatusDecrement_ByOne(s) ==
    /\ req[s].op = "setStatus" /\ req[s].pc = "decrement"
    /\ LET items == req[s].currentOrder[1].items
           item == items[req[s].idx]
       IN  /\ stock' = [stock EXCEPT ![item.productId] = @ - 1]
           /\ req' = [req EXCEPT ![s] =
                        [@ EXCEPT !.idx = @ + 1,
                                  !.pc = IF req[s].idx = Len(items)
                                         THEN "update" ELSE "decrement"]]
    /\ snap' = Disturb(req[s].id)
    /\ UNCHANGED <<rev, env, catalog, wishlist, cart, nextCartId, orders, nextOrderId, hist>>

\* prisma.product.update({ where: { id: item.productId },
\*                         data: { stock: { decrement: item.quantity } } })
\* for the next item of the loop; after the last one paymentStatus is paid.
SetStatusDecrement(s) ==
    /\ req[s].op = "setStatus" /\ req[s].pc = "decrement"
    /\ LET items == req[s].currentOrder[1].items
           item == items[req[s].idx]
       IN  /\ stock' = DecrementStock(s, item)
           /\ req' = [req EXCEPT ![s] =
                        [@ EXCEPT !.idx = @ + 1,
                                  !.pc = IF req[s].idx = Len(items)
                                         THEN "update" ELSE "decrement"]]
    /\ snap' = Disturb(req[s].id)
    /\ UNCHANGED <<rev, env, catalog, wishlist, cart, nextCartId, orders, nextOrderId, hist>>

\* Mutant: the stock is put back one unit per item.
SetStatusIncrement_ByOne(s) ==
    /\ req[s].op = "setStatus" /\ req[s].pc = "increment"
    /\ LET items == req[s].currentOrder[1].items
           item == items[req[s].idx]
       IN  /\ stock' = [stock EXCEPT ![item.productId] = @ + 1]
           /\ req' = [req EXCEPT ![s] =
                        [@ EXCEPT !.idx = @ + 1,
                                  !.pc = IF req[s].idx = Len(items)
                                         THEN "update" ELSE "increment"]]
    /\ snap' = Disturb(req[s].id)
    /\ UNCHANGED <<rev, env, catalog, wishlist, cart, nextCartId, orders, nextOrderId, hist>>

\* data: { stock: { increment: item.quantity } } for the next item
SetStatusIncrement(s) ==
    /\ req[s].op = "setStatus" /\ req[s].pc = "increment"
    /\ LET items == req[s].currentOrder[1].items
           item == items[req[s].idx]
       IN  /\ stock' = [stock EXCEPT ![item.productId] = @ + item.quantity]
           /\ req' = [req EXCEPT ![s] =
                        [@ EXCEPT !.idx = @ + 1,
                                  !.pc = IF req[s].idx = Len(items)
                                         THEN "update" ELSE "increment"]]
    /\ snap' = Disturb(req[s].id)
    /\ UNCHANGED <<rev, env, catalog, wishlist, cart, nextCartId, orders, nextOrderId, hist>>

\* Mutant: the paymentStatus of the request wins over the automatic paid.
UpdateData_RequestPayment(body, currentOrder) ==
    [status |-> IF body.status \notin {Absent, ""} THEN <<body.status>> ELSE <<>>,
     paymentStatus |-> IF body.paymentStatus \notin {Absent, ""}
                       THEN <<body.paymentStatus>>
                       ELSE IF EntersDelivered(body, currentOrder) THEN <<"paid">>
                       ELSE <<>>,
     notes |-> IF body.notes # Absent THEN <<body.notes>> ELSE <<>>]

\* The updateData of the request.
UpdateData(body, currentOrder) ==
    [status |-> IF body.status \notin {Absent, ""} THEN <<body.status>> ELSE <<>>,
     paymentStatus |-> IF EntersDelivered(body, currentOrder) THEN <<"paid">>
                       ELSE IF body.paymentStatus \notin {Absent, ""}
                       THEN <<body.paymentStatus>> ELSE <<>>,
     notes |-> IF body.notes # Absent THEN <<body.notes>> ELSE <<>>]

\* Mutant: the update prices the items again from the live products.
ApplyUpdate_Reprice(o, data) ==
    [o EXCEPT !.status = IF data.status # <<>> THEN data.status[1] ELSE @,
              !.paymentStatus = IF data.paymentStatus # <<>>
                                THEN data.paymentStatus[1] ELSE @,
              !.notes = IF data.notes # <<>> THEN data.notes[1] ELSE @,
              !.items = [i \in 1..Len(o.items) |->
                           [o.items[i] EXCEPT
                               !.price = catalog[o.items[i].productId].price]]]

\* prisma.order.update's data applied to the stored order
ApplyUpdate(o, data) ==
    [o EXCEPT !.status = IF data.status # <<>> THEN data.status[1] ELSE @,
              !.paymentStatus = IF data.paymentStatus # <<>>
                                THEN data.paymentStatus[1] ELSE @,
              !.notes = IF data.notes # <<>> THEN data.notes[1] ELSE @]

\* prisma.order.update({ where: { id }, data: updateData })
SetStatusUpdate(s) ==
    /\ req[s].op = "setStatus" /\ req[s].pc = "update"
    /\ IF OrderById(req[s].id) = {}
       THEN /\ req' = Respond(s, 500)
            /\ UNCHANGED orders
       ELSE /\ orders' =
                {IF o.id = req[s].id
                 THEN ApplyUpdate(o, UpdateData(req[s].body, req[s].currentOrder[1]))
                 ELSE o : o \in orders}
            /\ req' = Respond(s, 200)
    /\ UNCHANGED <<rev, env, catalog, wishlist, cart, nextCartId, nextOrderId, stock, hist, snap>>

(***************************************************************************)
(* Storage failures.                                                       *)
(***************************************************************************)
\* The Prisma call a handler is waiting for rejects: the catch block
\* answers 500 and whatever the handler wrote before stays written.
Fail(s) ==
    /\ Busy(s)
    /\ req' = Respond(s, 500)
    /\ UNCHANGED <<rev, env, catalog, wishlist, cart, nextCartId, orders, nextOrderId, stock, hist, snap>>

(***************************************************************************)
(* Specifications.                                                         *)
(***************************************************************************)
Init ==
    /\ rev \in Revisions
    /\ env = DeployedSecret
    /\ catalog = InitCatalog
    /\ wishlist = {}
    /\ cart = {}
    /\ nextCartId = 1
    /\ orders = {}
    /\ nextOrderId = 1
    /\ stock = InitStock
    /\ req = [s \in Slots |-> Idle]
    /\ hist = [u \in UserIds |-> HistNone]
    /\ snap = [o \in OrderIds |-> NoSnap]
    /\ calls = 0

\* The steps of the requests in flight.
CartStep(s) ==
    \/ AddLineWrite(s)
    \/ SetQuantityWrite(s)
    \/ RemoveLineDelete(s)
    \/ SyncFind(s)
    \/ SyncWrite(s)

\* The steps of a checkout whose generated order number is one no order
\* has; SpecNumber lets the generator repeat a number.
PlaceOrderStep(s) ==
    \/ PlaceOrderProducts(s)
    \/ PlaceOrderCreate(s, FreshOrderNumber)
    \/ PlaceOrderClear(s)

SetStatusStep(s) ==
    \/ SetStatusDecrement(s)
    \/ SetStatusIncrement(s)
    \/ SetStatusUpdate(s)

\* A request arrives and runs to its first await.
AddLineAny(s) == \E u \in UserIds, b \in AddBodies : AddLineFind(s, u, b)

CartStart(s) ==
    \/ AddLineAny(s)
    \/ \E u \in UserIds, i \in ItemIds, q \in SetQuantities :
          SetQuantityFind(s, u, i, q)
    \/ \E u \in UserIds, i \in ItemIds : RemoveLineFind(s, u, i)
    \/ \E u \in UserIds : ClearCart(s, u)
    \/ \E u \in UserIds, items \in SyncItems : SyncStart(s, u, items)

PlaceOrderAny(s) ==
    \E u \in UserIds, b \in ShippingBodies : PlaceOrderStart(s, u, b)

SetStatusAny(s) ==
    \E id \in OrderIds, b \in StatusBodies : SetStatusStart(s, id, b)

\* Spec: the cart and checkout requests, one at a time: the next request
\* arrives when the last was answered.
Next ==
    \/ Quiescent /\ CartStart(1) /\ calls' = calls + 1
    \/ Quiescent /\ PlaceOrderAny(1) /\ calls' = calls + 1
    \/ \E s \in Slots : CartStep(s) /\ UNCHANGED calls
    \/ \E s \in Slots : PlaceOrderStep(s) /\ UNCHANGED calls

Spec == Init /\ [][Next]_vars

\* SpecOrder: checkout and fulfillment, one request at a time, from carts
\* that earlier addLine calls have filled.
OrderBodies ==
    {b \in AddBodies : b.selectedColor = Absent /\ b.customSelections = JUndefined}

\* Who added what, in order: nothing, one line of user 1, or a second line
\* of another product or of the other user.
\* Two lines of one product, told apart by their color.
SameProductSeqs ==
    {<< <<1, a>>, <<1, b>> >> : 
        a \in {x \in AddBodies : x.productId = <<1>> /\ OptionCount(x) = 0
                                    /\ x.quantity = <<>>},
        b \in {x \in AddBodies : x.productId = <<1>> /\ x.selectedColor = "red"
                                    /\ x.quantity = <<2>>}}

OrderCartSeqs ==
    {<<>>}
    \cup SameProductSeqs
    \cup {<< <<1, b>> >> : b \in OrderBodies}
    \cup {adds \in {<< <<1, a>>, <<u, b>> >> :
                       u \in UserIds, a \in OrderBodies, b \in OrderBodies} :
             adds[2][1] = 1 => adds[2][2].productId # adds[1][2].productId}

CartFrom(adds) ==
    {NewCartRow(i, adds[i][1], adds[i][2], QuantityOf(adds[i][2])) :
        i \in 1..Len(adds)}

InitOrder ==
    /\ rev = "routes"
    /\ env = DeployedSecret
    /\ catalog = InitCatalog
    /\ wishlist = {}
    /\ \E adds \in OrderCartSeqs :
          /\ cart = CartFrom(adds)
          /\ nextCartId = Len(adds) + 1
    /\ orders = {}
    /\ nextOrderId = 1
    /\ stock = InitStock
    /\ req = [s \in Slots |-> Idle]
    /\ hist = [u \in UserIds |-> HistMixed]
    /\ snap = [o \in OrderIds |-> NoSnap]
    /\ calls = 0

NextOrder ==
    \/ Quiescent /\ PlaceOrderAny(1) /\ calls' = calls + 1
    \/ Quiescent /\ SetStatusAny(1) /\ calls' = calls + 1
    \/ \E s \in Slots : PlaceOrderStep(s) /\ UNCHANGED calls
    \/ \E s \in Slots : SetStatusStep(s) /\ UNCHANGED calls

SpecOrder == InitOrder /\ [][NextOrder]_vars

\* SpecFault: as SpecOrder, and any awaited storage call may fail.
NextFault ==
    \/ NextOrder
    \/ \E s \in Slots : Fail(s) /\ UNCHANGED calls

SpecFault == InitOrder /\ [][NextFault]_vars

\* SpecConc: addLine requests arriving while others are in flight.
NextConc ==
    \/ \E s \in Slots : AddLineAny(s) /\ calls' = calls + 1
    \/ \E s \in Slots : AddLineWrite(s) /\ UNCHANGED calls

SpecConc == Init /\ [][NextConc]_vars

(***************************************************************************)
(* Properties.                                                             *)
(***************************************************************************)
LinesWithKey(u, key) == {row \in CartOf(u) : RowKey(row) = key}

Answered(s, op, code) ==
    req[s].op = op /\ req[s].pc = "done" /\ req[s].status = code

\* C1: when all the addLine calls a user has made, one after another,
\* carried the same identity key, the user's cart holds exactly one line
\* with that key and its quantity is the sum of the quantities requested
\* (1 for a missing quantity).
C1_SameKeySum ==
    \A u \in UserIds :
        (Quiescent /\ hist[u].kind = "adds") =>
            /\ Cardinality(LinesWithKey(u, hist[u].key)) = 1
            /\ \A row \in LinesWithKey(u, hist[u].key) :
                  row.quantity = hist[u].sum

\* C2: two concurrent addLine calls of one user with the same identity key
\* and quantity 1 each, the only calls made on an empty cart, end with one
\* line of quantity 2.
C2_ConcurrentAddsMerge ==
    ( /\ calls = 2
      /\ Answered(1, "addLine", 200) /\ Answered(2, "addLine", 200)
      /\ req[1].userId = req[2].userId
      /\ BodyKey(req[1].body) = BodyKey(req[2].body)
      /\ QuantityOf(req[1].body) = 1 /\ QuantityOf(req[2].body) = 1 )
    => /\ Cardinality(CartOf(req[1].userId)) = 1
       /\ \A row \in CartOf(req[1].userId) : row.quantity = 2

\* C3: two concurrent addLine calls that both found the same existing line
\* leave it with its quantity raised by the sum of both quantities: the
\* quantity before either call wrote is the smaller of the two they read.
MinOf(a, b) == IF a <= b THEN a ELSE b

C3_NoLostIncrement ==
    ( /\ Answered(1, "addLine", 200) /\ Answered(2, "addLine", 200)
      /\ req[1].existingItem # <<>> /\ req[2].existingItem # <<>>
      /\ req[1].existingItem[1].id = req[2].existingItem[1].id )
    => \A row \in cart :
          row.id = req[1].existingItem[1].id =>
             row.quantity =
                MinOf(req[1].existingItem[1].quantity,
                      req[2].existingItem[1].quantity)
                + QuantityOf(req[1].body) + QuantityOf(req[2].body)

C5_MergeOnlyOnFullMatch ==
    \A s \in Slots :
        (Answered(s, "addLine", 200) /\ req[s].existingItem # <<>>) =>
            RowKey(req[s].existingItem[1]) = BodyKey(req[s].body)

RECURSIVE QuantityOfProduct(_, _)
QuantityOfProduct(items, p) ==
    IF items = <<>> THEN 0
    ELSE (IF items[1].productId = p THEN items[1].quantity ELSE 0)
         + QuantityOfProduct(Tail(items), p)

\* The request of slot s is a placeOrder with every shipping field given.
ValidPlaceOrder(r) == r.op = "placeOrder" /\ ~MissingShipping(r.body)

\* C6: a placeOrder with valid shipping fields on a non-empty cart creates
\* exactly one order, whose total is its subtotal plus its delivery charge,
\* and once it has answered with success the user's cart has no lines.
C6_OrderCreatedOnce ==
    \A s \in Slots :
        (ValidPlaceOrder(req[s]) /\ Busy(s)) =>
            IF req[s].pc = "create"
            THEN /\ Cardinality(orders') = Cardinality(orders) + 1
                 /\ orders \subseteq orders'
            ELSE orders' = orders

C6_OrderAndEmptyCart ==
    \A s \in Slots :
        Answered(s, "placeOrder", 201) =>
            /\ req[s].cartItems # <<>>
            /\ CartOf(req[s].userId) = {}
            /\ \E o \in orders :
                  /\ o.id = req[s].order[1]
                  /\ o.userId = req[s].userId
                  /\ Len(o.items) = Len(req[s].cartItems)
                  /\ o.total = o.subtotal + o.deliveryCharge

C6_PlaceOrder == [][C6_OrderCreatedOnce]_vars /\ []C6_OrderAndEmptyCart

\* C6 witness: a checkout of two cart lines has answered with success.
C6_Witness ==
    /\ Answered(1, "placeOrder", 201)
    /\ Len(req[1].cartItems) = 2
    /\ Cardinality(orders) = 1

\* C7: a placeOrder of a user whose cart has no lines is answered with the
\* empty-cart error in its first step, and that step changes no order, no
\* cart line of any user and no stock.
C7_EmptyCartStep ==
    \A u \in UserIds :
        ( /\ calls' = calls + 1
          /\ ValidPlaceOrder(req'[1])
          /\ req'[1].userId = u
          /\ CartOf(u) = {} )
        => /\ req'[1].pc = "done"
           /\ req'[1].status = 400
           /\ req'[1].error = "Cart is empty"
           /\ UNCHANGED <<cart, nextCartId, orders, nextOrderId, stock>>

C7_EmptyCart == [][C7_EmptyCartStep]_vars

\* C7 witness: the empty-cart error was answered to a user with no lines
\* while another user holds a line.
C7_Witness ==
    /\ Answered(1, "placeOrder", 400)
    /\ req[1].error = "Cart is empty"
    /\ CartOf(req[1].userId) = {}
    /\ cart # {}

\* C8: the order and the cleared cart are one atomic unit: once a placeOrder
\* has answered, the order it created exists only if the answer is a
\* success and none of the cart lines it read is still in the cart; a
\* failed placeOrder leaves no order.
C8_AtomicCheckout ==
    \A s \in Slots :
        (req[s].op = "placeOrder" /\ req[s].pc = "done" /\ req[s].order # <<>>) =>
            /\ req[s].status = 201
            /\ \A i \in 1..Len(req[s].cartItems) : req[s].cartItems[i] \notin cart

\* The request of slot s is a setStatus to `status` that found the order in
\* status `prev`.
IsTransition(r, prev, status) ==
    /\ r.op = "setStatus"
    /\ r.currentOrder # <<>>
    /\ r.currentOrder[1].status = prev
    /\ r.body.status = status

\* C9: a second setStatus(delivered) on an order that is already delivered
\* changes no stock, and when it has answered each product's stock is its
\* stock before the delivery less the order's quantity of it: one decrement
\* in total.
C9_SecondCallStep ==
    \A s \in Slots :
        (Busy(s) /\ IsTransition(req[s], "delivered", "delivered")) =>
            stock' = stock

C9_DeliveredOnce ==
    \A s \in Slots :
        ( /\ IsTransition(req[s], "delivered", "delivered")
          /\ req[s].pc = "done" /\ req[s].status = 200
          /\ snap[req[s].id].taken /\ snap[req[s].id].clean )
        => \A p \in ProductIds :
              stock[p] = snap[req[s].id].before[p]
                         - QuantityOfProduct(req[s].currentOrder[1].items, p)

C9_DeliverTwice == [][C9_SecondCallStep]_vars /\ []C9_DeliveredOnce

\* C9 witness: a second setStatus(delivered) has answered with success.
C9_Witness ==
    /\ IsTransition(req[1], "delivered", "delivered")
    /\ req[1].pc = "done" /\ req[1].status = 200
    /\ snap[req[1].id].taken
    /\ stock # InitStock

\* C10: an order delivered from pending and then cancelled, with no other
\* stock change in between, leaves every product's stock at its value
\* before the delivery.
C10_RoundTrip ==
    \A s \in Slots :
        ( /\ IsTransition(req[s], "delivered", "cancelled")
          /\ req[s].pc = "done" /\ req[s].status = 200
          /\ snap[req[s].id].taken /\ snap[req[s].id].clean
          /\ snap[req[s].id].from = "pending" )
        => \A p \in ProductIds : stock[p] = snap[req[s].id].before[p]

\* C10 witness: a delivered order of two items was cancelled.
C10_Witness ==
    /\ IsTransition(req[1], "delivered", "cancelled")
    /\ req[1].pc = "done" /\ req[1].status = 200
    /\ snap[req[1].id].taken /\ snap[req[1].id].from = "pending"
    /\ Len(req[1].currentOrder[1].items) = 2

(***************************************************************************)
(* SpecStatusConc: setStatus requests of the admin arriving while others   *)
(* are in flight, on an order that an earlier checkout has placed.         *)
(***************************************************************************)
\* The carts the placed order was made from: one line, or two lines of
\* different products, of user 1.
PlacedCartSeqs ==
    {adds \in OrderCartSeqs :
        /\ adds # <<>>
        /\ \A i \in 1..Len(adds) :
              adds[i][1] = 1 /\ adds[i][2].selectedVariant = JUndefined}

InsideShipping == CHOOSE b \in ValidShipping : b.deliveryArea = "inside"

\* The order of id 1 as placeOrder created it and as setStatus calls left
\* it: pending, or delivered and paid.
PlacedOrder(adds, status) ==
    [NewOrder(1, 1, 1, InsideShipping, OrderItems(RowsById(CartFrom(adds))))
        EXCEPT !.status = status,
               !.paymentStatus = IF status = "delivered" THEN "paid" ELSE "pending"]

\* The stock once the order is in that status.
StockWith(order) ==
    [p \in ProductIds |->
        IF order.status = "delivered"
        THEN InitStock[p] - QuantityOfProduct(order.items, p)
        ELSE InitStock[p]]

InitStatusConc ==
    /\ rev = "routes"
    /\ env = DeployedSecret
    /\ catalog = InitCatalog
    /\ wishlist = {}
    /\ cart = {}
    /\ nextCartId = 1
    /\ \E adds \in PlacedCartSeqs, status \in {"pending", "delivered"} :
          /\ orders = {PlacedOrder(adds, status)}
          /\ stock = StockWith(PlacedOrder(adds, status))
    /\ nextOrderId = 2
    /\ req = [s \in Slots |-> Idle]
    /\ hist = [u \in UserIds |-> HistMixed]
    /\ snap = [o \in OrderIds |-> NoSnap]
    /\ calls = 0

\* The requests of the race: a status alone, delivered or cancelled.
ConcStatusBodies ==
    {b \in StatusBodies :
        /\ b.status \in {"delivered", "cancelled"}
        /\ b.paymentStatus = Absent /\ b.notes = Absent}

SetStatusConcAny(s) ==
    \E id \in OrderIds, b \in ConcStatusBodies : SetStatusStart(s, id, b)

NextStatusConc ==
    \/ \E s \in Slots : SetStatusConcAny(s) /\ calls' = calls + 1
    \/ \E s \in Slots : SetStatusStep(s) /\ UNCHANGED calls

SpecStatusConc == InitStatusConc /\ [][NextStatusConc]_vars

\* Exactly two setStatus calls were made, both answered with success, both
\* asking for a status of `asked`, on an order first found in status `first`.
TwoCallsDone(first, asked) ==
    /\ calls = 2
    /\ \A s \in Slots :
          /\ Answered(s, "setStatus", 200)
          /\ req[s].id = 1
          /\ req[s].body.status \in asked
    /\ req[1].currentOrder[1].status \in first

\* C11: two concurrent setStatus(delivered) calls on an order that is not
\* yet delivered decrement each product's stock by the order's quantity of
\* it exactly once in total, for every interleaving.
C11_ConcurrentDeliverOnce ==
    TwoCallsDone(Statuses \ {"delivered"}, {"delivered"}) =>
        \A p \in ProductIds :
            stock[p] = InitStock[p]
                       - QuantityOfProduct(req[1].currentOrder[1].items, p)

\* C12: two concurrent setStatus calls that both move a delivered order to
\* a non-delivered status increment each product's stock by the order's
\* quantity of it exactly once in total: the stock is back at its value
\* before the delivery.
C12_ConcurrentRestoreOnce ==
    TwoCallsDone({"delivered"}, Statuses \ {"delivered"}) =>
        \A p \in ProductIds : stock[p] = InitStock[p]

\* The request r found its order and asks for a transition into delivered
\* from another status, or out of delivered.
IntoDelivered(r) ==
    /\ r.op = "setStatus" /\ r.currentOrder # <<>>
    /\ r.body.status = "delivered"
    /\ r.currentOrder[1].status # "delivered"

OutOfDelivered(r) ==
    /\ r.op = "setStatus" /\ r.currentOrder # <<>>
    /\ r.body.status \in Statuses \ {"delivered"}
    /\ r.currentOrder[1].status = "delivered"

\* C13: when a setStatus transition into or out of delivered is answered as
\* failed after a storage failure, every product's stock and the order's
\* status, paymentStatus and notes are what they were before the call.
C13_FailedTransitionAtomic ==
    \A s \in Slots :
        ( /\ IntoDelivered(req[s]) \/ OutOfDelivered(req[s])
          /\ req[s].pc = "done" /\ req[s].status = 500 )
        => /\ stock = req[s].stockBefore
           /\ \A o \in OrderById(req[s].id) :
                 /\ o.status = req[s].currentOrder[1].status
                 /\ o.paymentStatus = req[s].currentOrder[1].paymentStatus
                 /\ o.notes = req[s].currentOrder[1].notes

(***************************************************************************)
(* SpecPrice: checkout of carts whose lines carry variants with a price,   *)
(* with a price of 0 and without a price.                                  *)
(***************************************************************************)
VariantZero == JObject(<< <<"id", "2">>, <<"price", "0">> >>)
VariantNoPrice == JObject(<< <<"id", "3">> >>)
PriceVariants == {JUndefined, VariantA, VariantZero, VariantNoPrice}

PriceBodies ==
    [productId : {<<p>> : p \in ProductIds}, quantity : Quantities,
     selectedColor : {Absent}, selectedSize : {Absent},
     selectedVariant : PriceVariants, customSelections : {JUndefined}]

\* The addLine calls that filled the cart of user 1: one line, or two lines
\* of different products.
PriceCartSeqs ==
    {<< <<1, b>> >> : b \in PriceBodies}
    \cup {adds \in {<< <<1, a>>, <<1, b>> >> : a \in PriceBodies, b \in PriceBodies} :
             adds[1][2].productId # adds[2][2].productId}

InitPrice ==
    /\ rev = "routes"
    /\ env = DeployedSecret
    /\ catalog = InitCatalog
    /\ wishlist = {}
    /\ \E adds \in PriceCartSeqs :
          /\ cart = CartFrom(adds)
          /\ nextCartId = Len(adds) + 1
    /\ orders = {}
    /\ nextOrderId = 1
    /\ stock = InitStock
    /\ req = [s \in Slots |-> Idle]
    /\ hist = [u \in UserIds |-> HistMixed]
    /\ snap = [o \in OrderIds |-> NoSnap]
    /\ calls = 0

NextPrice ==
    \/ Quiescent /\ PlaceOrderAny(1) /\ calls' = calls + 1
    \/ \E s \in Slots : PlaceOrderStep(s) /\ UNCHANGED calls

SpecPrice == InitPrice /\ [][NextPrice]_vars

\* The unit price of a cart line as stated: the price of its variant when
\* the variant carries one, the price of its product otherwise.
StatedUnitPrice(row) ==
    IF VariantPrice(row.selectedVariant) # <<>>
    THEN VariantPrice(row.selectedVariant)[1]
    ELSE catalog[row.productId].price

RECURSIVE StatedSubtotal(_)
StatedSubtotal(rows) ==
    IF rows = <<>> THEN 0
    ELSE StatedUnitPrice(rows[1]) * rows[1].quantity + StatedSubtotal(Tail(rows))

\* C14: the subtotal of a placed order is the sum over the cart lines of
\* unit price times quantity, the unit price being the variant price when
\* present and the product price otherwise, and the delivery charge is 80
\* for the area "inside"; 2 x a product of 10 and 1 x a product of 25 with
\* a variant price of 30, delivered inside, give subtotal 50 and total 130.
C14_SubtotalAndCharge ==
    \A s \in Slots :
        Answered(s, "placeOrder", 201) =>
            \A o \in OrderById(req[s].order[1]) :
                /\ o.subtotal = StatedSubtotal(req[s].cartItems)
                /\ o.deliveryArea = "inside" => o.deliveryCharge = 80
                /\ ( /\ o.deliveryArea = "inside"
                     /\ Len(req[s].cartItems) = 2
                     /\ \E i \in 1..2 :
                           /\ req[s].cartItems[i].productId = 1
                           /\ req[s].cartItems[i].quantity = 2
                           /\ req[s].cartItems[i].selectedVariant = JNull
                     /\ \E i \in 1..2 :
                           /\ req[s].cartItems[i].productId = 2
                           /\ req[s].cartItems[i].quantity = 1
                           /\ req[s].cartItems[i].selectedVariant = VariantA )
                   => o.subtotal = 50 /\ o.total = 130

\* C15: a successful setStatus that moves an order from a non-delivered
\* status to delivered leaves each product's stock at its value before the
\* call less the sum of the quantities of the order's items of that product;
\* the stock of a product of no item is unchanged.
C15_DeliveryDecrements ==
    \A s \in Slots :
        (IntoDelivered(req[s]) /\ req[s].pc = "done" /\ req[s].status = 200) =>
            \A p \in ProductIds :
                stock[p] = req[s].stockBefore[p]
                           - QuantityOfProduct(req[s].currentOrder[1].items, p)

\* C15 witness: the delivery of an order with two items of one product, of
\* quantities 1 and 2, has answered with success.
C15_Witness ==
    /\ IntoDelivered(req[1]) /\ req[1].pc = "done" /\ req[1].status = 200
    /\ Len(req[1].currentOrder[1].items) = 2
    /\ req[1].currentOrder[1].items[1].productId
          = req[1].currentOrder[1].items[2].productId
    /\ stock # req[1].stockBefore

\* C16: once a setStatus that moves an order from a non-delivered status
\* into delivered has answered with success, the order's paymentStatus is
\* paid, whatever paymentStatus the request carried.
C16_DeliveredIsPaid ==
    \A s \in Slots :
        (IntoDelivered(req[s]) /\ req[s].pc = "done" /\ req[s].status = 200) =>
            \A o \in OrderById(req[s].id) :
                o.status = "delivered" /\ o.paymentStatus = "paid"

\* C16 witness: a delivery whose request carried paymentStatus pending has
\* answered with success.
C16_Witness ==
    /\ IntoDelivered(req[1]) /\ req[1].pc = "done" /\ req[1].status = 200
    /\ req[1].body.paymentStatus = "pending"
    /\ req[1].currentOrder[1].paymentStatus = "pending"

\* Order o2 is order o up to its status, paymentStatus and notes.
SameButStatusFields(o, o2) ==
    [o2 EXCEPT !.status = o.status, !.paymentStatus = o.paymentStatus,
               !.notes = o.notes] = o

\* C17: every step of a setStatus call that found its order and neither
\* enters delivered from another status nor leaves delivered keeps every
\* product's stock, and changes nothing of any order but the status,
\* paymentStatus and notes of the addressed one.
C17_FrameStep ==
    \A s \in Slots :
        ( /\ req'[s] # req[s]
          /\ req'[s].op = "setStatus" /\ req'[s].currentOrder # <<>>
          /\ ~IntoDelivered(req'[s]) /\ ~OutOfDelivered(req'[s]) )
        => /\ stock' = stock
           /\ Cardinality(orders') = Cardinality(orders)
           /\ \A o \in orders :
                 IF o.id = req'[s].id
                 THEN \E o2 \in orders' : SameButStatusFields(o, o2)
                 ELSE o \in orders'

C17_OtherTransitions == [][C17_FrameStep]_vars

\* C17 witness: a setStatus(delivered) on a delivered order and stock
\* below the initial stock.
C17_Witness ==
    /\ Answered(1, "setStatus", 200)
    /\ req[1].currentOrder[1].status = "delivered"
    /\ req[1].body.status = "delivered"
    /\ stock = req[1].stockBefore
    /\ stock # InitStock

\* C18: no step of a cart operation or of a placeOrder changes the stock of
\* any product, and an order that such a step creates has status pending.
C18_NoStockStep ==
    /\ stock' = stock
    /\ \A o \in orders' \ orders : o.status = "pending"

C18_StockUntouched == [][C18_NoStockStep]_vars

\* C18 witness: a checkout has answered with success after cart
\* operations, and the stock is the initial stock.
C18_Witness ==
    /\ Answered(1, "placeOrder", 201)
    /\ calls = 3
    /\ \E o \in orders : o.status = "pending" /\ Len(o.items) = 2
    /\ stock = InitStock

(***************************************************************************)
(* PUT /api/products/:id  (catalog edit) and SpecCatalog: checkout,        *)
(* fulfillment and catalog edits, one request at a time.                   *)
(***************************************************************************)
\* Request bodies of the product update: a new price, a new title, or new
\* images.
ProductEdits ==
    {[title |-> Absent, price |-> <<12>>, images |-> <<>>],
     [title |-> "Product X", price |-> <<>>, images |-> <<>>],
     [title |-> Absent, price |-> <<>>, images |-> << <<"x.jpg">> >>]}

\* if (title !== undefined) data.title = title; ... prisma.product.update
UpdateProduct(id, body) ==
    /\ calls < MaxCalls
    /\ id \in ProductIds
    /\ catalog' = [catalog EXCEPT ![id] =
          [@ EXCEPT !.title = IF body.title # Absent THEN body.title ELSE @,
                    !.price = IF body.price # <<>> THEN body.price[1] ELSE @,
                    !.images = IF body.images # <<>> THEN body.images[1] ELSE @]]
    /\ UNCHANGED <<rev, env, wishlist, cart, nextCartId, orders, nextOrderId, stock, req, hist, snap>>

InitCatalogSpec ==
    /\ rev = "routes"
    /\ env = DeployedSecret
    /\ catalog = InitCatalog
    /\ wishlist = {}
    /\ \E adds \in PlacedCartSeqs :
          /\ cart = CartFrom(adds)
          /\ nextCartId = Len(adds) + 1
    /\ orders = {}
    /\ nextOrderId = 1
    /\ stock = InitStock
    /\ req = [s \in Slots |-> Idle]
    /\ hist = [u \in UserIds |-> HistMixed]
    /\ snap = [o \in OrderIds |-> NoSnap]
    /\ calls = 0

NextCatalog ==
    \/ NextOrder
    \/ /\ Quiescent
       /\ \E id \in ProductIds, body \in ProductEdits : UpdateProduct(id, body)
       /\ calls' = calls + 1

SpecCatalog == InitCatalogSpec /\ [][NextCatalog]_vars

\* C19: no step changes the items (title, price, quantity, image), the
\* subtotal, the deliveryCharge or the total of an order that exists: an
\* order changes in its status, paymentStatus and notes only, whatever
\* catalog edits, checkouts and setStatus calls follow its creation.
C19_SnapshotStep ==
    \A o \in orders :
        \E o2 \in orders' :
            /\ o2.id = o.id
            /\ o2.items = o.items
            /\ o2.subtotal = o.subtotal
            /\ o2.deliveryCharge = o.deliveryCharge
            /\ o2.total = o.total
            /\ SameButStatusFields(o, o2)

C19_FrozenSnapshot == [][C19_SnapshotStep]_vars

\* C19 witness: an order was delivered after the price, the title or the
\* image of the product of its first item was edited.
C19_Witness ==
    \E o \in orders :
        /\ o.status = "delivered"
        /\ LET item == o.items[1]
           IN  \/ item.price # catalog[item.productId].price
               \/ item.title # catalog[item.productId].title
               \/ item.image # catalog[item.productId].images[1]

(***************************************************************************)
(* Tokens, and SpecUserCalls: setStatus requests of callers that hold no   *)
(* admin token, on an order that an earlier checkout has placed.           *)
(***************************************************************************)
\* const JWT_SECRET = process.env.JWT_SECRET || '...' of the two routers
UserJwtSecret == IF env # Absent THEN env ELSE "your-secret-key"
OrderJwtSecret ==
    IF env # Absent THEN env ELSE "your-super-secret-key-change-in-production"

UserIdText == (1 :> "1") @@ (2 :> "2")

\* jwt.sign({ userId: user.id, email: user.email }, JWT_SECRET, ...)
UserToken(u) ==
    [bearer |-> TRUE, secret |-> UserJwtSecret,
     payload |-> JObject(<< <<"userId", UserIdText[u]>>, <<"email", "u@x.io">> >>)]

\* A token with an admin payload that the caller signed with a guess.
ForgedToken ==
    [bearer |-> TRUE, secret |-> "guess", payload |-> JObject(<< <<"id", "1">> >>)]

\* A request without an Authorization header.
NoHeader == [bearer |-> FALSE, secret |-> "", payload |-> JUndefined]

\* The Authorization headers of callers without the admin capability:
\* none, a user token, a forged token.
UserHeaders == {NoHeader, ForgedToken} \cup {UserToken(u) : u \in UserIds}

\* jwt.verify(token, JWT_SECRET) of the order router: the payload, or
\* nothing when the signature does not verify.
JwtVerify(token) == IF token.secret = OrderJwtSecret THEN <<token.payload>> ELSE <<>>

\* if (!authHeader?.startsWith('Bearer ')) return null; return decoded
getAdminFromToken(header) ==
    IF ~header.bearer THEN <<>> ELSE JwtVerify(header)

\* The whole handler up to its first await: if (!admin) 401, then the find.
SetStatusRequest(s, header, id, body) ==
    IF getAdminFromToken(header) = <<>>
    THEN /\ CanStart(s)
         /\ req' = [req EXCEPT ![s] =
                      [op |-> "setStatus", pc |-> "done", status |-> 401,
                       id |-> id, body |-> body, currentOrder |-> <<>>,
                       idx |-> 1, stockBefore |-> stock]]
         /\ UNCHANGED <<rev, env, catalog, wishlist, cart, nextCartId, orders, nextOrderId,
                        stock, hist, snap>>
    ELSE SetStatusStart(s, id, body)

InitUserCalls ==
    /\ rev = "routes"
    /\ env \in JwtSecretEnvs
    /\ catalog = InitCatalog
    /\ wishlist = {}
    /\ cart = {}
    /\ nextCartId = 1
    /\ \E adds \in PlacedCartSeqs, status \in {"pending", "delivered"} :
          /\ orders = {PlacedOrder(adds, status)}
          /\ stock = StockWith(PlacedOrder(adds, status))
    /\ nextOrderId = 2
    /\ req = [s \in Slots |-> Idle]
    /\ hist = [u \in UserIds |-> HistMixed]
    /\ snap = [o \in OrderIds |-> NoSnap]
    /\ calls = 0

NextUserCalls ==
    \/ /\ Quiescent
       /\ \E header \in UserHeaders, id \in OrderIds, body \in StatusBodies :
             SetStatusRequest(1, header, id, body)
       /\ calls' = calls + 1
    \/ \E s \in Slots : SetStatusStep(s) /\ UNCHANGED calls

SpecUserCalls == InitUserCalls /\ [][NextUserCalls]_vars

\* C20: a setStatus request of a caller that holds no admin token, an
\* ordinary user token included, is answered 401 and changes no order and
\* no stock.
C20_UserCallStep ==
    /\ orders' = orders
    /\ stock' = stock
    /\ \A s \in Slots :
          req'[s].op = "setStatus" => req'[s].pc = "done" /\ req'[s].status = 401

C20_AdminOnly == [][C20_UserCallStep]_vars

(***************************************************************************)
(* SpecLowStock: checkout and fulfillment, one request at a time, of       *)
(* products with little or no stock left.                                  *)
(***************************************************************************)
LowStocks == [ProductIds -> {0, 1}]

InitLowStock ==
    /\ rev = "routes"
    /\ env = DeployedSecret
    /\ catalog = InitCatalog
    /\ wishlist = {}
    /\ \E adds \in PlacedCartSeqs :
          /\ cart = CartFrom(adds)
          /\ nextCartId = Len(adds) + 1
    /\ orders = {}
    /\ nextOrderId = 1
    /\ stock \in LowStocks
    /\ req = [s \in Slots |-> Idle]
    /\ hist = [u \in UserIds |-> HistMixed]
    /\ snap = [o \in OrderIds |-> NoSnap]
    /\ calls = 0

SpecLowStock == InitLowStock /\ [][NextOrder]_vars

\* C21: from a non-negative stock and with no catalog edit, the stock of
\* every product is at least 0 in every state that placeOrder and setStatus
\* calls, served one at a time, can reach.
C21_StockNonNegative == \A p \in ProductIds : stock[p] >= 0

(***************************************************************************)
(* SpecCompare: the find of addLine applied to candidates that differ in   *)
(* one optional field, sent absent, sent null or sent with a value.  Each  *)
(* of the two users holds the line that one candidate created, and is sent *)
(* another candidate.                                                      *)
(***************************************************************************)
CompareBodies ==
    {b \in [productId : {<<1>>}, quantity : {<<>>},
            selectedColor : {Absent, Null, "red"}, selectedSize : {Absent, Null},
            selectedVariant : {JUndefined, JNull, VariantA},
            customSelections : {JUndefined, JNull, CustomAB, CustomBA}] :
        Cardinality({f \in {"selectedColor", "selectedSize"} : b[f] # Absent})
        + Cardinality({f \in {"selectedVariant", "customSelections"} :
                          b[f] # JUndefined}) <= 1}

InitCompare ==
    /\ rev \in Revisions
    /\ env = DeployedSecret
    /\ catalog = InitCatalog
    /\ wishlist = {}
    /\ \E a \in CompareBodies, b \in CompareBodies :
          cart = {NewCartRow(1, 1, a, 1), NewCartRow(2, 2, b, 1)}
    /\ nextCartId = 3
    /\ orders = {}
    /\ nextOrderId = 1
    /\ stock = InitStock
    /\ req = [s \in Slots |-> Idle]
    /\ hist = [u \in UserIds |-> HistMixed]
    /\ snap = [o \in OrderIds |-> NoSnap]
    /\ calls = 0

\* User s sends a candidate on slot s.
NextCompare ==
    \/ /\ \E s \in Slots, b \in CompareBodies : AddLineFind(s, s, b)
       /\ calls' = calls + 1
    \/ \E s \in Slots : AddLineWrite(s) /\ UNCHANGED calls

SpecCompare == InitCompare /\ [][NextCompare]_vars

\* The line that a candidate creates, up to id, owner and quantity.
LineOf(body) == NewCartRow(0, 0, body, 0)
SameFields(row, body) ==
    [row EXCEPT !.id = 0, !.userId = 0, !.quantity = 0] = LineOf(body)

\* The find of slot s has been answered and the write is still to come.
Compared(s) == req[s].op = "addLine" /\ req[s].pc = "write"

\* C22: the comparison of a candidate with a stored line matches whenever
\* both have the same identity key, an absent option counting as null and
\* the keys of customSelections in any order (so a candidate matches the
\* line it created), and it is symmetric: when each of two candidates is
\* compared with the line the other created, both comparisons agree.
C22_LineComparison ==
    /\ \A s \in Slots :
          ( /\ Compared(s)
            /\ \E row \in CartOf(req[s].userId) : RowKey(row) = BodyKey(req[s].body) )
          => req[s].existingItem # <<>>
    /\ ( /\ Compared(1) /\ Compared(2)
         /\ \E row \in CartOf(1) : SameFields(row, req[2].body)
         /\ \E row \in CartOf(2) : SameFields(row, req[1].body) )
       => (req[1].existingItem # <<>> <=> req[2].existingItem # <<>>)

(***************************************************************************)
(* SpecValidation: cart requests of every quantity, served one at a time.  *)
(***************************************************************************)
\* Request bodies with the product id given or missing and the quantity
\* missing, zero, negative or positive.
ValidationBodies ==
    [productId : {<<>>, <<1>>}, quantity : {<<>>, <<0>>, <<-1>>, <<2>>},
     selectedColor : {Absent}, selectedSize : {Absent},
     selectedVariant : {JUndefined}, customSelections : {JUndefined}]

\* Guest cart items of one product, of every quantity.
ValidationItems ==
    LET Items == {b \in ValidationBodies :
                     b.productId = <<1>> /\ b.quantity # <<>>}
    IN  {<<a>> : a \in Items} \cup {<<a, b>> : a \in Items, b \in Items}

ValidationQuantities == -1 .. 2

NextValidation ==
    \/ /\ \E u \in UserIds, b \in ValidationBodies : AddLineFind(1, u, b)
       /\ calls' = calls + 1
    \/ /\ \E u \in UserIds, i \in ItemIds, q \in ValidationQuantities :
             SetQuantityFind(1, u, i, q)
       /\ calls' = calls + 1
    \/ /\ \E u \in UserIds, items \in ValidationItems : SyncStart(1, u, items)
       /\ calls' = calls + 1
    \/ AddLineWrite(1) /\ UNCHANGED calls
    \/ SetQuantityWrite(1) /\ UNCHANGED calls
    \/ SyncFind(1) /\ UNCHANGED calls
    \/ SyncWrite(1) /\ UNCHANGED calls

SpecValidation == Init /\ [][NextValidation]_vars

\* A body addLine is to refuse: no product id, or a quantity below 1.
InvalidAdd(body) == body.productId = <<>> \/ QuantityOf(body) < 1

\* C23: an addLine call whose body has no productId, or whose quantity is
\* zero or negative, is answered at once with the validation error (400)
\* and leaves the cart as it was.
C23_AddLineValidation ==
    [][\A s \in Slots :
          ( /\ req'[s] # req[s]
            /\ req'[s].op = "addLine"
            /\ InvalidAdd(req'[s].body) )
          => /\ req'[s].pc = "done" /\ req'[s].status = 400
             /\ cart' = cart]_vars

\* C24: every cart line has a quantity of at least 1, whatever quantities
\* the addLine, setQuantity and sync requests carried.
C24_QuantityAtLeastOne == \A row \in cart : row.quantity >= 1

(***************************************************************************)
(* SpecLineOps: setQuantity and removeLine, one request at a time, on      *)
(* carts that earlier addLine calls have filled.                           *)
(***************************************************************************)
\* One line of user 1, alone or with a line of another product that
\* either user owns.
LineCartSeqs ==
    LET Plain(p) == {b \in AddBodies : b.productId = <<p>> /\ OptionCount(b) = 0}
    IN  {<< <<1, a>> >> : a \in Plain(1)}
        \cup {<< <<1, a>>, <<u, b>> >> :
                 u \in UserIds, a \in Plain(1), b \in Plain(2)}

InitLineOps ==
    /\ rev = "routes"
    /\ env = DeployedSecret
    /\ catalog = InitCatalog
    /\ wishlist = {}
    /\ \E adds \in LineCartSeqs :
          /\ cart = CartFrom(adds)
          /\ nextCartId = Len(adds) + 1
    /\ orders = {}
    /\ nextOrderId = 1
    /\ stock = InitStock
    /\ req = [s \in Slots |-> Idle]
    /\ hist = [u \in UserIds |-> HistMixed]
    /\ snap = [o \in OrderIds |-> NoSnap]
    /\ calls = 0

NextLineOps ==
    \/ /\ \E u \in UserIds, i \in ItemIds, q \in SetQuantities :
             SetQuantityFind(1, u, i, q)
       /\ calls' = calls + 1
    \/ /\ \E u \in UserIds, i \in ItemIds : RemoveLineFind(1, u, i)
       /\ calls' = calls + 1
    \/ SetQuantityWrite(1) /\ UNCHANGED calls
    \/ RemoveLineDelete(1) /\ UNCHANGED calls

SpecLineOps == InitLineOps /\ [][NextLineOps]_vars

\* The request on slot s before and after this step: a call of op arrives,
\* or the call in flight is answered.
Arrives(s, op) ==
    /\ req'[s] # req[s]
    /\ req'[s].op = op
    /\ ~(req[s].op = op /\ Busy(s))
Completes(s, op) ==
    /\ req[s].op = op /\ Busy(s)
    /\ req'[s].pc = "done"

\* C25: setQuantity is answered not-found (404) when the line does not
\* exist or is another user's, and with the validation error (400) when
\* the quantity is below 1; a failing call changes no cart line, and a
\* successful one changes the quantity of the addressed line and nothing
\* else.
C25_SetQuantity ==
    [][\A s \in Slots :
          /\ Arrives(s, "setQuantity") =>
                LET r == req'[s]
                    owned == \E row \in cart :
                                row.id = r.itemId /\ row.userId = r.userId
                IN  /\ cart' = cart
                    /\ r.quantity < 1 => r.pc = "done" /\ r.status = 400
                    /\ (r.quantity >= 1 /\ ~owned)
                          => r.pc = "done" /\ r.status = 404
                    /\ (r.quantity >= 1 /\ owned) => r.pc = "write"
          /\ Completes(s, "setQuantity") =>
                LET r == req[s]
                IN  /\ req'[s].status = 200
                    /\ \A row \in cart : row.id # r.itemId => row \in cart'
                    /\ \A row \in cart : row.id = r.itemId =>
                          [row EXCEPT !.quantity = r.quantity] \in cart'
                    /\ Cardinality(cart') = Cardinality(cart)]_vars

\* A setQuantity call has succeeded on one line while another line is in
\* the cart table.
C25_Witness ==
    /\ req[1].op = "setQuantity" /\ req[1].pc = "done" /\ req[1].status = 200
    /\ \E row \in cart : /\ row.id = req[1].itemId
                          /\ row.userId = req[1].userId
                          /\ row.quantity = req[1].quantity
    /\ \E row \in cart : row.id # req[1].itemId

\* C26: removeLine is answered not-found (404) when the line is absent or
\* is another user's, and then deletes nothing; a successful call deletes
\* the addressed line and leaves every other line as it was.
C26_RemoveLine ==
    [][\A s \in Slots :
          /\ Arrives(s, "removeLine") =>
                LET r == req'[s]
                    owned == \E row \in cart :
                                row.id = r.itemId /\ row.userId = r.userId
                IN  /\ cart' = cart
                    /\ ~owned => r.pc = "done" /\ r.status = 404
                    /\ owned => r.pc = "delete"
          /\ Completes(s, "removeLine") =>
                LET r == req[s]
                IN  /\ req'[s].status = 200
                    /\ cart' = {row \in cart : row.id # r.itemId}
                    /\ Cardinality(cart') = Cardinality(cart) - 1]_vars

\* A removeLine call addressed to another user's line has been answered
\* not-found, and the line is still there.
C26_Witness ==
    /\ req[1].op = "removeLine" /\ req[1].pc = "done" /\ req[1].status = 404
    /\ \E row \in cart : row.id = req[1].itemId /\ row.userId # req[1].userId

(***************************************************************************)
(* SpecSync: guest carts merged one call at a time, and any awaited        *)
(* storage call of the loop may fail.                                      *)
(***************************************************************************)
NextSync ==
    \/ /\ \E u \in UserIds, items \in SyncItems : SyncStart(1, u, items)
       /\ calls' = calls + 1
    \/ SyncFind(1) /\ UNCHANGED calls
    \/ SyncWrite(1) /\ UNCHANGED calls
    \/ Fail(1) /\ UNCHANGED calls

SpecSync == Init /\ [][NextSync]_vars

\* C27: when a sync call has been answered, every candidate but one that
\* failed has been merged: the candidates the loop has not got through
\* are at most the failing one, none after it.
C27_MergeBestEffort ==
    \A s \in Slots :
        (req[s].op = "sync" /\ req[s].pc = "done") => Len(req[s].items) <= 1

(***************************************************************************)
(* Checkout validation (SpecOrder).                                        *)
(***************************************************************************)
RequiredShipping ==
    {"customerName", "customerPhone", "deliveryAddress", "deliveryArea"}

\* C28: a placeOrder whose body lacks one of the four required shipping
\* fields is answered with the validation error in its first step, before
\* the cart is read, and that step changes no order, no cart line and no
\* stock.
C28_MissingFieldStep ==
    ( /\ calls' = calls + 1
      /\ req'[1].op = "placeOrder"
      /\ \E f \in RequiredShipping : req'[1].body[f] = Absent )
    => /\ req'[1].pc = "done"
       /\ req'[1].status = 400
       /\ req'[1].error = "Please fill in all required fields"
       /\ req'[1].cartItems = <<>>
       /\ UNCHANGED <<cart, nextCartId, orders, nextOrderId, stock>>

C28_MissingField == [][C28_MissingFieldStep]_vars

\* The validation error was answered to a user who holds cart lines and
\* sent no delivery area.
C28_Witness ==
    /\ Answered(1, "placeOrder", 400)
    /\ req[1].error = "Please fill in all required fields"
    /\ req[1].body.deliveryArea = Absent
    /\ CartOf(req[1].userId) # {}
    /\ orders = {}

(***************************************************************************)
(* SpecUnknown: checkout of carts holding a line whose product has been    *)
(* deleted from the catalog.                                               *)
(***************************************************************************)
DeletedProduct == 3

UnknownBodies ==
    [productId : {<<1>>, <<DeletedProduct>>}, quantity : Quantities,
     selectedColor : {Absent}, selectedSize : {Absent},
     selectedVariant : PriceVariants, customSelections : {JUndefined}]

\* The addLine calls that filled the cart of user 1, made while the product
\* existed: one line, or two lines of different products.
UnknownCartSeqs ==
    {<< <<1, b>> >> : b \in UnknownBodies}
    \cup {adds \in {<< <<1, a>>, <<1, b>> >> :
                       a \in UnknownBodies, b \in UnknownBodies} :
             adds[1][2].productId # adds[2][2].productId}

InitUnknown ==
    /\ rev = "routes"
    /\ env = DeployedSecret
    /\ catalog = InitCatalog
    /\ wishlist = {}
    /\ \E adds \in UnknownCartSeqs :
          /\ cart = CartFrom(adds)
          /\ nextCartId = Len(adds) + 1
    /\ orders = {}
    /\ nextOrderId = 1
    /\ stock = InitStock
    /\ req = [s \in Slots |-> Idle]
    /\ hist = [u \in UserIds |-> HistMixed]
    /\ snap = [o \in OrderIds |-> NoSnap]
    /\ calls = 0

SpecUnknown == InitUnknown /\ [][NextPrice]_vars

\* C29: a placeOrder that read a cart line of a product that no longer
\* exists succeeds, and the order item of that line has the title
\* "Unknown Product" and the price 0, whatever variant the line carries.
C29_UnknownProduct ==
    \A s \in Slots :
        ( /\ req[s].op = "placeOrder" /\ req[s].pc = "done"
          /\ \E i \in 1..Len(req[s].cartItems) :
                req[s].cartItems[i].productId \notin ProductIds )
        => /\ req[s].status = 201
           /\ \A o \in OrderById(req[s].order[1]) :
                 \A i \in 1..Len(o.items) :
                    o.items[i].productId \notin ProductIds
                    => /\ o.items[i].title = "Unknown Product"
                       /\ o.items[i].price = 0

(***************************************************************************)
(* The price and image of an order item (SpecPrice).                       *)
(***************************************************************************)
\* The display image of a cart line as stated: the image of its variant
\* when the variant carries one, else the first image of its product, else
\* the empty string.
StatedImage(row) ==
    IF VariantImage(row.selectedVariant) # <<>>
    THEN VariantImage(row.selectedVariant)[1]
    ELSE IF catalog[row.productId].images # <<>>
    THEN catalog[row.productId].images[1]
    ELSE ""

\* C30: the order item computed from a cart line has the variant price of
\* the line whenever the variant carries a price, a price of 0 included,
\* and the product price otherwise; its image is the variant image when
\* present and the first image of the product otherwise.
C30_ResolvePriceAndImage ==
    \A s \in Slots :
        (req[s].op = "placeOrder" /\ req[s].orderItems # <<>>) =>
            \A i \in 1..Len(req[s].orderItems) :
                /\ req[s].orderItems[i].price = StatedUnitPrice(req[s].cartItems[i])
                /\ req[s].orderItems[i].image = StatedImage(req[s].cartItems[i])

(***************************************************************************)
(* SpecNumber: checkout while an earlier order exists, the generated order *)
(* number being any the generator can return.                              *)
(***************************************************************************)
\* An order of user 2 placed before the orders counted from nextOrderId.
EarlierOrder ==
    NewOrder(0, 1, 2, InsideShipping,
             OrderItems(RowsById({NewCartRow(0, 2,
                 CHOOSE b \in OrderBodies :
                     b.productId = <<1>> /\ OptionCount(b) = 0, 1)})))

InitNumber ==
    /\ rev = "routes"
    /\ env = DeployedSecret
    /\ catalog = InitCatalog
    /\ wishlist = {}
    /\ \E adds \in OrderCartSeqs :
          /\ cart = CartFrom(adds)
          /\ nextCartId = Len(adds) + 1
    /\ orders = {EarlierOrder}
    /\ nextOrderId = 1
    /\ stock = InitStock
    /\ req = [s \in Slots |-> Idle]
    /\ hist = [u \in UserIds |-> HistMixed]
    /\ snap = [o \in OrderIds |-> NoSnap]
    /\ calls = 0

NextNumber ==
    \/ Quiescent /\ PlaceOrderAny(1) /\ calls' = calls + 1
    \/ PlaceOrderProducts(1) /\ UNCHANGED calls
    \/ /\ \E orderNumber \in generateOrderNumber : PlaceOrderCreate(1, orderNumber)
       /\ UNCHANGED calls
    \/ PlaceOrderClear(1) /\ UNCHANGED calls

SpecNumber == InitNumber /\ [][NextNumber]_vars

\* C31: no two orders have the same orderNumber: a placeOrder whose
\* generated number is that of an existing order creates no order.
C31_UniqueOrderNumber ==
    \A o1 \in orders, o2 \in orders :
        o1.orderNumber = o2.orderNumber => o1 = o2

\* A second order exists, under another number, and a placeOrder whose
\* number was taken has been refused.
C31_Witness ==
    /\ Cardinality(orders) = 2
    /\ Answered(1, "placeOrder", 500)
    /\ req[1].order = <<>>
    /\ req[1].orderItems # <<>>

(***************************************************************************)
(* SpecAnyStatus: setStatus calls, one at a time, on a placed order, the   *)
(* status asked for being any string.                                      *)
(***************************************************************************)
\* A status string that is none of the four.
OtherStatus == "shipped"

AnyStatusBodies ==
    [status : Statuses \cup {OtherStatus}, paymentStatus : {Absent},
     notes : {Absent}]

NextAnyStatus ==
    \/ /\ Quiescent
       /\ \E id \in OrderIds, b \in AnyStatusBodies : SetStatusStart(1, id, b)
       /\ calls' = calls + 1
    \/ SetStatusStep(1) /\ UNCHANGED calls

SpecAnyStatus == InitStatusConc /\ [][NextAnyStatus]_vars

\* C32: the status of every order is one of pending, processing,
\* delivered, cancelled, and a setStatus request asking for a status
\* outside these four leaves the stock as it found it.
C32_KnownStatus ==
    /\ \A o \in orders : o.status \in Statuses
    /\ \A s \in Slots :
          (req[s].op = "setStatus" /\ req[s].body.status \notin Statuses)
          => stock = req[s].stockBefore

(***************************************************************************)
(* SpecCheckoutConc: placeOrder and addLine requests of one user arriving  *)
(* while others are in flight.                                             *)
(***************************************************************************)
RaceUser == 1

\* Lines without options, of either product.
RaceBodies ==
    {b \in AddBodies : OptionCount(b) = 0 /\ b.quantity = <<>>}

\* The cart of the user: one line, or one of each product.  The order ids
\* are counted from 0, so that two orders can be created within MaxOrders.
InitCheckoutConc ==
    /\ rev = "routes"
    /\ env = DeployedSecret
    /\ catalog = InitCatalog
    /\ wishlist = {}
    /\ \E adds \in {a \in OrderCartSeqs :
                        /\ a # <<>>
                        /\ \A i \in 1..Len(a) :
                              a[i][1] = RaceUser /\ a[i][2] \in RaceBodies} :
          /\ cart = CartFrom(adds)
          /\ nextCartId = Len(adds) + 1
    /\ orders = {}
    /\ nextOrderId = 0
    /\ stock = InitStock
    /\ req = [s \in Slots |-> Idle]
    /\ hist = [u \in UserIds |-> HistMixed]
    /\ snap = [o \in OrderIds |-> NoSnap]
    /\ calls = 0

NextCheckoutConc ==
    \/ /\ \E s \in Slots : PlaceOrderStart(s, RaceUser, InsideShipping)
       /\ calls' = calls + 1
    \/ /\ \E s \in Slots, b \in RaceBodies : AddLineFind(s, RaceUser, b)
       /\ calls' = calls + 1
    \/ \E s \in Slots : PlaceOrderStep(s) /\ UNCHANGED calls
    \/ \E s \in Slots : AddLineWrite(s) /\ UNCHANGED calls

SpecCheckoutConc == InitCheckoutConc /\ [][NextCheckoutConc]_vars

\* C33: every cart line that a successful placeOrder deletes is one of the
\* lines it read and made an order item of, whatever addLine of the same
\* user runs in between.
C33_DeletedLinesOrdered ==
    [][\A s \in Slots :
          ( /\ req[s].op = "placeOrder" /\ req[s].pc = "clear"
            /\ req'[s].pc = "done" /\ req'[s].status = 201 )
          => \A row \in cart \ cart' :
                \E i \in 1..Len(req[s].cartItems) :
                    req[s].cartItems[i].id = row.id]_vars

\* C34: two placeOrder calls of one user never both create an order from
\* the same cart line.
C34_LinesOrderedOnce ==
    \A s \in Slots, t \in Slots :
        ( /\ s # t
          /\ req[s].op = "placeOrder" /\ req[s].order # <<>>
          /\ req[t].op = "placeOrder" /\ req[t].order # <<>> )
        => \A i \in 1..Len(req[s].cartItems), j \in 1..Len(req[t].cartItems) :
              req[s].cartItems[i].id # req[t].cartItems[j].id

(***************************************************************************)
(* SpecDeliverConc: setStatus requests on two orders that hold the same    *)
(* product, arriving while others are in flight.                           *)
(***************************************************************************)
\* The two orders: the earlier one, of id 0, and one of id 1.
TwoOrderIds == {EarlierOrder.id, 1}

InitDeliverConc ==
    /\ rev = "routes"
    /\ env = DeployedSecret
    /\ catalog = InitCatalog
    /\ wishlist = {}
    /\ cart = {}
    /\ nextCartId = 1
    /\ \E adds \in PlacedCartSeqs :
          orders = {EarlierOrder, PlacedOrder(adds, "pending")}
    /\ nextOrderId = 2
    /\ stock = InitStock
    /\ req = [s \in Slots |-> Idle]
    /\ hist = [u \in UserIds |-> HistMixed]
    /\ snap = [o \in OrderIds |-> NoSnap]
    /\ calls = 0

NextDeliverConc ==
    \/ /\ \E s \in Slots, id \in TwoOrderIds, b \in ConcStatusBodies :
             SetStatusStart(s, id, b)
       /\ calls' = calls + 1
    \/ \E s \in Slots : SetStatusStep(s) /\ UNCHANGED calls

SpecDeliverConc == InitDeliverConc /\ [][NextDeliverConc]_vars

\* The items of its order that the delivery of request r has taken from
\* the stock so far.
ItemsTaken(r) == SubSeq(r.currentOrder[1].items, 1, r.idx - 1)

\* Two calls, one per order, each moving its order into delivered.
TwoDeliveries ==
    /\ calls = 2
    /\ \A s \in Slots : IntoDelivered(req[s]) /\ req[s].status \in {0, 200}
    /\ req[1].id # req[2].id

\* C35: while and after two setStatus calls move two different orders to
\* delivered, the stock of every product is its initial value less the
\* quantities of the items either call has taken so far: no decrement is
\* lost, and at the end the stock is down by the sum of both orders'
\* quantities.
C35_NoLostDecrement ==
    TwoDeliveries =>
        \A p \in ProductIds :
            stock[p] = InitStock[p] - QuantityOfProduct(ItemsTaken(req[1]), p)
                                    - QuantityOfProduct(ItemsTaken(req[2]), p)

\* Both calls are in flight, each has taken its items, and product 1 is
\* down by the quantities of both orders.
C35_Witness ==
    /\ TwoDeliveries
    /\ \A s \in Slots : req[s].pc = "update"
    /\ \A s \in Slots :
          QuantityOfProduct(req[s].currentOrder[1].items, 1) > 0
    /\ stock[1] = InitStock[1]
                   - QuantityOfProduct(req[1].currentOrder[1].items, 1)
                   - QuantityOfProduct(req[2].currentOrder[1].items, 1)

(***************************************************************************)
(* DELETE /api/wishlist/:productId  (remove by product and options)        *)
(***************************************************************************)
\* The query string: each option is given (possibly empty) or not given;
\* customSelections, when given, is the JSON text of a map.
WishlistQueries ==
    [selectedColor : {Absent, "", "red"}, selectedSize : {Absent, ""},
     customSelections : {JUndefined, CustomAB, CustomBA}]

\* The where object: user and product, and each option only if the query
\* has it; { equals: parsed } compares JSON values, not their text.
WishlistWhere(row, userId, productId, query) ==
    /\ row.userId = userId
    /\ row.productId = productId
    /\ query.selectedColor # Absent
          => row.selectedColor = StrOrNull(query.selectedColor)
    /\ query.selectedSize # Absent
          => row.selectedSize = StrOrNull(query.selectedSize)
    /\ query.customSelections.kind # "undefined"
          => /\ row.customSelections.kind = query.customSelections.kind
             /\ PairSet(row.customSelections) = PairSet(query.customSelections)

\* prisma.wishlistItem.deleteMany({ where }), then { success: true }
WishlistRemove(s, userId, productId, query) ==
    /\ CanStart(s)
    /\ wishlist' = {row \in wishlist :
                       ~WishlistWhere(row, userId, productId, query)}
    /\ req' = [req EXCEPT ![s] =
                 [op |-> "wishlistRemove", pc |-> "done", status |-> 200,
                  userId |-> userId, productId |-> productId,
                  query |-> query]]
    /\ UNCHANGED <<rev, env, catalog, cart, nextCartId, orders, nextOrderId, stock, hist, snap>>

(***************************************************************************)
(* SpecWishlist: removals, one at a time, from wishlists that earlier      *)
(* adds have filled.                                                       *)
(***************************************************************************)
WishlistRow(id, userId, productId, color, custom) ==
    [id |-> id, userId |-> userId, productId |-> productId,
     selectedColor |-> color, selectedSize |-> Null,
     selectedVariant |-> JNull, customSelections |-> custom]

\* Entries of product 1 that differ in their options, one of product 2 and
\* one of another user.
WishlistEntries ==
    {WishlistRow(1, 1, 1, Null, JNull), WishlistRow(2, 1, 1, "red", JNull),
     WishlistRow(3, 1, 1, Null, CustomAB), WishlistRow(4, 1, 2, Null, JNull),
     WishlistRow(5, 2, 1, Null, JNull)}

InitWishlist ==
    /\ rev = "routes"
    /\ env = DeployedSecret
    /\ catalog = InitCatalog
    /\ wishlist \in SUBSET WishlistEntries
    /\ cart = {}
    /\ nextCartId = 1
    /\ orders = {}
    /\ nextOrderId = 1
    /\ stock = InitStock
    /\ req = [s \in Slots |-> Idle]
    /\ hist = [u \in UserIds |-> HistMixed]
    /\ snap = [o \in OrderIds |-> NoSnap]
    /\ calls = 0

NextWishlist ==
    /\ \E u \in UserIds, p \in ProductIds, q \in WishlistQueries :
          WishlistRemove(1, u, p, q)
    /\ calls' = calls + 1

SpecWishlist == InitWishlist /\ [][NextWishlist]_vars

\* The identity key a removal names: the product and the options of the
\* query, an option that is not given counting as null.
QueryKey(r) ==
    IdentityKey(r.productId, r.query.selectedColor, r.query.selectedSize,
                JUndefined, r.query.customSelections)

\* C36: a removal by product and options is answered with success whether
\* or not an entry matches, and the entries it deletes are exactly the
\* caller's entries whose identity key is the key named, options not
\* given counting as null; entries of the product with other options
\* stay.
C36_RemoveStep ==
    (calls' = calls + 1 /\ req'[1].op = "wishlistRemove")
    => /\ req'[1].status = 200
       /\ wishlist' = {row \in wishlist :
                          ~(/\ row.userId = req'[1].userId
                            /\ RowKey(row) = QueryKey(req'[1]))}

C36_RemoveExact == [][C36_RemoveStep]_vars

(***************************************************************************)
(* The stock ledger (SpecFault).                                           *)
(***************************************************************************)
\* The quantity of product p in the items of the delivered orders of os.
RECURSIVE DeliveredQuantity(_, _)
DeliveredQuantity(os, p) ==
    IF os = {} THEN 0
    ELSE LET o == CHOOSE x \in os : TRUE
         IN  (IF o.status = "delivered" THEN QuantityOfProduct(o.items, p) ELSE 0)
             + DeliveredQuantity(os \ {o}, p)

\* C37: with setStatus calls served one at a time and no catalog edit or
\* order deletion, whenever no call is in flight the stock of every
\* product is its initial stock less the quantities of its items in the
\* orders that are delivered.
C37_StockLedger ==
    Quiescent =>
        \A p \in ProductIds :
            stock[p] = InitStock[p] - DeliveredQuantity(orders, p)

(***************************************************************************)
(* SpecIsolation: every cart operation and checkout, by either user, one   *)
(* request at a time, on carts that earlier addLine calls have filled.     *)
(***************************************************************************)
\* Guest carts of one or two lines without options.
IsolationItems ==
    LET Items == {[b EXCEPT !.quantity = <<1>>] : b \in RaceBodies}
    IN  {<<a>> : a \in Items} \cup {<<a, b>> : a \in Items, b \in Items}

InitIsolation ==
    /\ rev \in Revisions
    /\ env = DeployedSecret
    /\ catalog = InitCatalog
    /\ wishlist = {}
    /\ \E adds \in LineCartSeqs :
          /\ cart = CartFrom(adds)
          /\ nextCartId = Len(adds) + 1
    /\ orders = {}
    /\ nextOrderId = 1
    /\ stock = InitStock
    /\ req = [s \in Slots |-> Idle]
    /\ hist = [u \in UserIds |-> HistMixed]
    /\ snap = [o \in OrderIds |-> NoSnap]
    /\ calls = 0

IsolationStart ==
    \/ \E u \in UserIds, b \in RaceBodies : AddLineFind(1, u, b)
    \/ \E u \in UserIds, i \in ItemIds, q \in SetQuantities :
          SetQuantityFind(1, u, i, q)
    \/ \E u \in UserIds, i \in ItemIds : RemoveLineFind(1, u, i)
    \/ \E u \in UserIds : ClearCart(1, u)
    \/ \E u \in UserIds, items \in IsolationItems : SyncStart(1, u, items)
    \/ \E u \in UserIds : PlaceOrderStart(1, u, InsideShipping)

NextIsolation ==
    \/ Quiescent /\ IsolationStart /\ calls' = calls + 1
    \/ CartStep(1) /\ UNCHANGED calls
    \/ PlaceOrderStep(1) /\ UNCHANGED calls

SpecIsolation == InitIsolation /\ [][NextIsolation]_vars

\* C38: a step of a cart operation or of a checkout changes the cart lines
\* of no user but the one the request belongs to, whatever line id the
\* request names.
C38_CartIsolation ==
    [][\A v \in UserIds :
          {row \in cart' : row.userId = v} # CartOf(v)
          => \E s \in Slots : req'[s] # req[s] /\ req'[s].userId = v]_vars

\* A user has cleared their cart, and the other user's lines are there.
C38_Witness ==
    /\ Answered(1, "clear", 200)
    /\ CartOf(req[1].userId) = {}
    /\ \E v \in UserIds : v # req[1].userId /\ CartOf(v) # {}

(***************************************************************************)
(* SpecMissingOrder: setStatus calls, one at a time, naming the placed     *)
(* order or an order that does not exist.                                  *)
(***************************************************************************)
\* An id no order has.
MissingOrderId == MaxOrders + 1

NextMissingOrder ==
    \/ /\ Quiescent
       /\ \E id \in OrderIds \cup {MissingOrderId}, b \in StatusBodies :
             SetStatusStart(1, id, b)
       /\ calls' = calls + 1
    \/ SetStatusStep(1) /\ UNCHANGED calls

SpecMissingOrder == InitStatusConc /\ [][NextMissingOrder]_vars

\* C39: a setStatus call that names an order id no order has is answered
\* not-found (404) at once and changes no stock and no order.
C39_MissingOrderStep ==
    ( /\ calls' = calls + 1
      /\ req'[1].op = "setStatus"
      /\ \A o \in orders : o.id # req'[1].id )
    => /\ req'[1].pc = "done"
       /\ req'[1].status = 404
       /\ UNCHANGED <<stock, orders>>

C39_MissingOrder == [][C39_MissingOrderStep]_vars

\* Not-found was answered to a call asking to deliver a missing order
\* while an order is there.
C39_Witness ==
    /\ Answered(1, "setStatus", 404)
    /\ req[1].body.status = "delivered"
    /\ \A o \in orders : o.id # req[1].id
    /\ orders # {}
====
